---- MODULE Spec2Model ----
(***************************************************************************)
(* Verification model of the backtesting core:                             *)
(*   - OrderManager (src/src/order_manager.py): orders, positions, cash    *)
(*   - OrderService.cancel_order (src/backend/services/order_service.py)   *)
(*   - AsyncBacktestEngine (src/src/async_engine.py): the step driver      *)
(*                                                                         *)
(* Numbers.  The code computes in floats; the model computes the same      *)
(* expressions exactly over integers.  Market prices, limit/stop prices    *)
(* and Order.filled_price are whole price units.  Rates (commission,       *)
(* percentage slippage) are numerators over RateDen, a fixed slippage      *)
(* amount is a numerator over RateDen as well.  A slippage-adjusted price  *)
(* px (and so Position.entry_price / exit_price) is therefore held in      *)
(* 1/RateDen units, and cash and commissions in 1/RateDen^2 units, so that *)
(* px * qty * commission needs no division.                                *)
(***************************************************************************)
EXTENDS Integers, Sequences, FiniteSets, Bags, TLC

\* ------------------------------------------------------------------ bounds
RateDen == 10
MaxOrders == 2
MaxTasks == 2

Symbols == {"A", "B"}
Quantities == {0, 2, 3}
Prices == {1, 2}

\* ------------------------------------------------------- optional values
None == <<>>
Some(v) == <<v>>
Val(x) == x[1]

Sgn(x) == IF x > 0 THEN 1 ELSE IF x < 0 THEN -1 ELSE 0
Abs(x) == IF x < 0 THEN -x ELSE x
SetMin(S) == CHOOSE x \in S : \A y \in S : x <= y

\* ------------------------------------------------------------ enum values
MARKET == "market"
LIMIT == "limit"
STOP == "stop"
VWAP == "vwap"
TWAP == "twap"
PENDING == "pending"
FILLED == "filled"
CANCELLED == "cancelled"
BUY == "buy"
SELL == "sell"
FIXED == "fixed"
PERCENTAGE == "percentage"
VOLATILITY_ADJUSTED == "volatility_adjusted"

\* OrderManager.__init__ default: order_fill_delay_ms
OrderFillDelayMs == 50

VARIABLES
    commission,        \* OrderManager.commission   (numerator over RateDen)
    slippage_model,    \* OrderManager.slippage_model
    slippage,          \* OrderManager.slippage     (numerator over RateDen)
    orders,            \* OrderManager.orders: order id (index) -> Order
    positions,         \* OrderManager.positions: position id (index) -> Position
    closed_positions,  \* OrderManager.closed_positions: list of position ids
    cash,              \* OrderManager.cash         (1/RateDen^2 units)
    cash0,             \* the cash the ledger was seeded with
    fills,             \* history: one record per fill applied by execute_order
    last,              \* history: the call that completed last and what it returned
    tasks,             \* bag of the execute_order / close_position calls
                       \* suspended in the fill delay
    data_dict,         \* AsyncBacktestEngine: symbol -> (date -> [close, signal]),
                       \* the fetched bars with the strategy's signal column
    params,            \* strategy.params: stop_loss_pct, take_profit_pct
    pc,                \* where run_backtest / _step_through_data stands
    t_idx,             \* index of the timestamp group being processed
    row,               \* index of the row (symbol) within the group
    equity_curve,      \* AsyncBacktestEngine.equity_curve
    final_capital,     \* the final_capital of the returned result (None: no result)
    strategy_name,     \* run_backtest's strategy_name argument
    strategy_definition, \* run_backtest's strategy_definition argument
    indicator_map,     \* ComposableStrategy.indicator_map: indicator id -> column
    current_capital    \* BacktestEngine.current_capital (1/RateDen^2 units)

ledgerVars == <<commission, slippage_model, slippage, orders, positions,
                closed_positions, cash, cash0>>
runVars == <<strategy_name, strategy_definition, indicator_map, current_capital>>
driverVars == <<data_dict, params, pc, t_idx, row, equity_curve, final_capital,
                strategy_name, strategy_definition, indicator_map, current_capital>>
vars == <<commission, slippage_model, slippage, orders, positions,
          closed_positions, cash, cash0, fills, last, tasks,
          data_dict, params, pc, t_idx, row, equity_curve, final_capital,
          strategy_name, strategy_definition, indicator_map, current_capital>>

\* ------------------------------------------------------------ Order, Position
\* Order.__init__
NewOrder(symbol, quantity, order_type, direction, price, duration) ==
    [symbol |-> symbol, quantity |-> quantity, order_type |-> order_type,
     direction |-> direction, price |-> price, duration |-> duration,
     status |-> PENDING, filled_price |-> None, filled_time |-> None,
     commission |-> 0]

\* Position.__init__
NewPosition(symbol, quantity, entry_price, entry_time) ==
    [symbol |-> symbol, quantity |-> quantity, entry_price |-> entry_price,
     entry_time |-> entry_time, exit_price |-> None, exit_time |-> None,
     commission |-> 0, orders |-> <<>>]

\* Position.is_open
IsOpen(p) == p.exit_price = None

\* Position.close
ClosePos(p, exit_price, exit_time) ==
    [p EXCEPT !.exit_price = Some(exit_price), !.exit_time = Some(exit_time)]

\* Position.add_order (oid is the order's id, o the order as it is when attached)
AddOrder(p, oid, o) ==
    [p EXCEPT !.orders = Append(@, oid), !.commission = @ + o.commission]

\* OrderManager.get_open_positions: ids of the open positions, in dict order
OpenPositions(pos) == {i \in 1..Len(pos) : IsOpen(pos[i])}

\* a float the pricer returns: a finite value, or NaN
Finite(v) == [kind |-> "finite", v |-> v]
NaN == [kind |-> "nan", v |-> 0]

\* a trailing window (the DataFrame passed as data) is a sequence of bars
\* [time, close, volume] in index order; closes are positive
RECURSIVE SeqSum(_, _)
SeqSum(f, n) == IF n = 0 THEN 0 ELSE SeqSum(f, n - 1) + f[n]

\* data.loc[:current_time].iloc[-order.duration:] (line 207): the bars at or
\* before current_time, then the slice from -duration on; -0 is 0, so
\* duration 0 slices from the first bar, and a negative duration slices from
\* that many bars after the first
PeriodData(window, current_time, duration) ==
    LET upto == SelectSeq(window, LAMBDA b : b.time <= current_time)
        n == Len(upto)
    IN IF duration = 0 \/ duration >= n THEN upto
       ELSE IF duration > 0 THEN SubSeq(upto, n - duration + 1, n)
       ELSE SubSeq(upto, 1 - duration, n)

\* ----------------------------------------------------------- ExecutionPricer
\* variant: a triggered limit order is priced at the current close
GetExecutionPrice_LimitAtClose(order, current_price, current_time, data) ==
    IF order.order_type = MARKET THEN Some(current_price)
    ELSE IF order.order_type = LIMIT THEN
        IF order.price = None THEN None
        ELSE IF (order.direction = BUY /\ current_price <= Val(order.price))
                \/ (order.direction = SELL /\ current_price >= Val(order.price))
             THEN Some(current_price)
             ELSE None
    ELSE IF order.order_type = STOP THEN
        IF order.price = None THEN None
        ELSE IF (order.direction = BUY /\ current_price >= Val(order.price))
                \/ (order.direction = SELL /\ current_price <= Val(order.price))
             THEN Some(current_price)
             ELSE None
    ELSE None

\* OrderManager._get_execution_price; data = None when no trailing window is
\* passed.  Result: None or Some(price).
GetExecutionPrice(order, current_price, current_time, data) ==
    IF order.order_type = MARKET THEN Some(current_price)
    ELSE IF order.order_type = LIMIT THEN
        IF order.price = None THEN None
        ELSE IF (order.direction = BUY /\ current_price <= Val(order.price))
                \/ (order.direction = SELL /\ current_price >= Val(order.price))
             THEN order.price
             ELSE None
    ELSE IF order.order_type = STOP THEN
        IF order.price = None THEN None
        ELSE IF (order.direction = BUY /\ current_price >= Val(order.price))
                \/ (order.direction = SELL /\ current_price <= Val(order.price))
             THEN Some(current_price)
             ELSE None
    ELSE IF order.order_type \in {VWAP, TWAP} THEN
        IF data = None \/ order.duration = None THEN None
        ELSE LET period_data == PeriodData(Val(data), current_time, Val(order.duration))
                 n == Len(period_data)
                 volume == SeqSum([i \in 1..n |-> period_data[i].volume], n)
             IN IF n = 0 THEN None
                ELSE IF order.order_type = VWAP
                THEN IF volume = 0 THEN Some(NaN)
                     ELSE Some(SeqSum([i \in 1..n |-> period_data[i].close
                                                       * period_data[i].volume], n)
                                   \div volume)
                ELSE Some(SeqSum([i \in 1..n |-> period_data[i].close], n) \div n)
    ELSE None

\* the benchmark of a weighted order is NaN: a volume-weighted order whose
\* selected bars have zero total volume (0/0 in line 212)
IsNaNBenchmark(order, current_time, data) ==
    /\ order.order_type = VWAP
    /\ data # None
    /\ order.duration # None
    /\ LET period_data == PeriodData(Val(data), current_time, Val(order.duration))
           n == Len(period_data)
       IN n > 0 /\ SeqSum([i \in 1..n |-> period_data[i].volume], n) = 0

RollingWindow == 20

RECURSIVE SetProduct(_)
SetProduct(S) ==
    IF S = {} THEN 1 ELSE LET x == SetMin(S) IN x * SetProduct(S \ {x})

Isqrt(n) == CHOOSE r \in 0..n : r * r <= n /\ n < (r + 1) * (r + 1)

\* data['close'].pct_change().rolling(20).std().iloc[-1] (line 226): NaN
\* unless the window has 21 rows or more; else the sample standard deviation
\* of the last 20 relative changes, as a numerator over RateDen (rounded down).
\* The changes are taken exactly, as numerators over the product D of the
\* closes that occur; with n = 20, S1 their sum and S2 the sum of their
\* squares, the variance is (n*S2 - S1^2) / (D^2 * n * (n-1))
Volatility(window) ==
    IF Len(window) < RollingWindow + 1 THEN NaN
    ELSE LET n == RollingWindow
             first == Len(window) - n
             D == SetProduct({window[i].close : i \in first..Len(window)})
             x == [i \in 1..n |->
                      ((window[first + i].close - window[first + i - 1].close) * D)
                          \div window[first + i - 1].close]
             S1 == SeqSum(x, n)
             S2 == SeqSum([i \in 1..n |-> x[i] * x[i]], n)
         IN Finite(Isqrt(((n * S2 - S1 * S1) * RateDen * RateDen)
                             \div (D * D * n * (n - 1))))

\* OrderManager._apply_slippage, in 1/RateDen price units; a float
ApplySlippage(model, slip, order, execution_price, data) ==
    IF model \in {FIXED, PERCENTAGE} THEN
        LET slippage_amount == IF model = FIXED THEN slip
                               ELSE execution_price * slip
        IN IF order.direction = BUY
           THEN Finite(execution_price * RateDen + slippage_amount)
           ELSE Finite(execution_price * RateDen - slippage_amount)
    ELSE IF model = VOLATILITY_ADJUSTED /\ data # None THEN
        LET volatility == Volatility(Val(data))
            slippage_amount == (execution_price * volatility.v * slip) \div RateDen
        IN IF volatility = NaN THEN NaN
           ELSE IF order.direction = BUY
           THEN Finite(execution_price * RateDen + slippage_amount)
           ELSE Finite(execution_price * RateDen - slippage_amount)
    ELSE Finite(execution_price * RateDen)

\* variant: commission charged on the price alone
Commission_PerFill(px, quantity, rate) == px * rate

\* commission on executed notional: px * order.quantity * self.commission
Commission(px, quantity, rate) == px * quantity * rate

\* variant: the commission is added to the proceeds of a sell
ApplyCashFlow_CommissionSign(c, direction, px, quantity, comm) ==
    IF direction = BUY
    THEN c - (px * quantity * RateDen + comm)
    ELSE c + (px * quantity * RateDen + comm)

\* the cash flow of a fill: buy reduces cash, sell increases cash
ApplyCashFlow(c, direction, px, quantity, comm) ==
    IF direction = BUY
    THEN c - (px * quantity * RateDen + comm)
    ELSE c + (px * quantity * RateDen - comm)

\* ----------------------------------------------------------- PositionLedger
\* the open position of a symbol that _update_position finds (0: none)
FindOpenPosition(pos, symbol) ==
    LET S == {i \in OpenPositions(pos) : pos[i].symbol = symbol}
    IN IF S = {} THEN 0 ELSE SetMin(S)

\* variant: a zero-cross opens the residual position and leaves the old one open
UpdatePosition_KeepOld(pos, closed, oid, o, execution_price, current_time) ==
    LET open_position == FindOpenPosition(pos, o.symbol)
        delta == IF o.direction = BUY THEN o.quantity ELSE -o.quantity
    IN IF open_position = 0 THEN
           IF delta = 0
           THEN [positions |-> pos, closed |-> closed, ret |-> 0]
           ELSE [positions |-> Append(pos, AddOrder(NewPosition(o.symbol, delta,
                                        execution_price, current_time), oid, o)),
                 closed |-> closed, ret |-> Len(pos) + 1]
       ELSE
           LET old == pos[open_position]
               new_qty == old.quantity + delta
               attached == AddOrder(old, oid, o)
           IN IF Sgn(old.quantity) # Sgn(new_qty) /\ new_qty # 0 THEN
                  [positions |-> Append([pos EXCEPT ![open_position] = attached],
                       NewPosition(o.symbol, new_qty, execution_price, current_time)),
                   closed |-> closed,
                   ret |-> Len(pos) + 1]
              ELSE IF new_qty = 0 THEN
                  [positions |-> [pos EXCEPT ![open_position] =
                            ClosePos(attached, execution_price, current_time)],
                   closed |-> Append(closed, open_position),
                   ret |-> 0]
              ELSE
                  [positions |-> [pos EXCEPT ![open_position] =
                            [attached EXCEPT !.quantity = new_qty]],
                   closed |-> closed,
                   ret |-> open_position]

\* variant: a zero-cross opens the new position with the order's quantity
\* instead of the residual
UpdatePosition_FullDelta(pos, closed, oid, o, execution_price, current_time) ==
    LET open_position == FindOpenPosition(pos, o.symbol)
        delta == IF o.direction = BUY THEN o.quantity ELSE -o.quantity
    IN IF open_position = 0 THEN
           IF delta = 0
           THEN [positions |-> pos, closed |-> closed, ret |-> 0]
           ELSE [positions |-> Append(pos, AddOrder(NewPosition(o.symbol, delta,
                                        execution_price, current_time), oid, o)),
                 closed |-> closed, ret |-> Len(pos) + 1]
       ELSE
           LET old == pos[open_position]
               new_qty == old.quantity + delta
               attached == AddOrder(old, oid, o)
           IN IF Sgn(old.quantity) # Sgn(new_qty) /\ new_qty # 0 THEN
                  [positions |-> Append(
                       [pos EXCEPT ![open_position] =
                            ClosePos(attached, execution_price, current_time)],
                       NewPosition(o.symbol, delta, execution_price, current_time)),
                   closed |-> Append(closed, open_position),
                   ret |-> Len(pos) + 1]
              ELSE IF new_qty = 0 THEN
                  [positions |-> [pos EXCEPT ![open_position] =
                            ClosePos(attached, execution_price, current_time)],
                   closed |-> Append(closed, open_position),
                   ret |-> 0]
              ELSE
                  [positions |-> [pos EXCEPT ![open_position] =
                            [attached EXCEPT !.quantity = new_qty]],
                   closed |-> closed,
                   ret |-> open_position]

\* variant: without the zero-quantity check when no position is open, and
\* without the close when the net quantity reaches zero
UpdatePosition_ZeroQty(pos, closed, oid, o, execution_price, current_time) ==
    LET open_position == FindOpenPosition(pos, o.symbol)
        delta == IF o.direction = BUY THEN o.quantity ELSE -o.quantity
    IN IF open_position = 0 THEN
           [positions |-> Append(pos, AddOrder(NewPosition(o.symbol, delta,
                                        execution_price, current_time), oid, o)),
            closed |-> closed, ret |-> Len(pos) + 1]
       ELSE
           LET old == pos[open_position]
               new_qty == old.quantity + delta
               attached == AddOrder(old, oid, o)
           IN IF Sgn(old.quantity) # Sgn(new_qty) /\ new_qty # 0 THEN
                  [positions |-> Append(
                       [pos EXCEPT ![open_position] =
                            ClosePos(attached, execution_price, current_time)],
                       NewPosition(o.symbol, new_qty, execution_price, current_time)),
                   closed |-> Append(closed, open_position),
                   ret |-> Len(pos) + 1]
              ELSE
                  [positions |-> [pos EXCEPT ![open_position] =
                            [attached EXCEPT !.quantity = new_qty]],
                   closed |-> closed,
                   ret |-> open_position]

\* OrderManager._update_position.  oid/o: the filled order.  Result: the new
\* positions and closed_positions and the returned position id (0: None).
UpdatePosition(pos, closed, oid, o, execution_price, current_time) ==
    LET open_position == FindOpenPosition(pos, o.symbol)
        delta == IF o.direction = BUY THEN o.quantity ELSE -o.quantity
    IN IF open_position = 0 THEN
           IF delta = 0
           THEN [positions |-> pos, closed |-> closed, ret |-> 0]
           ELSE [positions |-> Append(pos, AddOrder(NewPosition(o.symbol, delta,
                                        execution_price, current_time), oid, o)),
                 closed |-> closed, ret |-> Len(pos) + 1]
       ELSE
           LET old == pos[open_position]
               new_qty == old.quantity + delta
               attached == AddOrder(old, oid, o)
           IN IF Sgn(old.quantity) # Sgn(new_qty) /\ new_qty # 0 THEN
                  [positions |-> Append(
                       [pos EXCEPT ![open_position] =
                            ClosePos(attached, execution_price, current_time)],
                       NewPosition(o.symbol, new_qty, execution_price, current_time)),
                   closed |-> Append(closed, open_position),
                   ret |-> Len(pos) + 1]
              ELSE IF new_qty = 0 THEN
                  [positions |-> [pos EXCEPT ![open_position] =
                            ClosePos(attached, execution_price, current_time)],
                   closed |-> Append(closed, open_position),
                   ret |-> 0]
              ELSE
                  [positions |-> [pos EXCEPT ![open_position] =
                            [attached EXCEPT !.quantity = new_qty]],
                   closed |-> closed,
                   ret |-> open_position]

\* the positions after a fill whose price is NaN: a position opened by the
\* fill has entry price NaN, a position closed by it exit price NaN, and a
\* position the order was attached to commission NaN
PoisonPositions(before, after) ==
    [i \in 1..Len(after) |->
        IF i > Len(before)
        THEN [after[i] EXCEPT !.entry_price = NaN,
                              !.commission = IF after[i].orders # <<>> THEN NaN ELSE 0]
        ELSE IF after[i] = before[i] THEN after[i]
        ELSE [after[i] EXCEPT !.commission = NaN,
                              !.exit_price = IF after[i].exit_price = None THEN None
                                             ELSE Some(NaN)]]

\* OrderManager.execute_order after the fill delay (lines 159-190), applied to
\* the ledger as it is when the call resumes.  Result: the new ledger fields,
\* the returned position id (0: None) and the fill that was applied, if any.
CompleteOrder(ords, pos, closed, c, oid, current_price, current_time, data) ==
    LET order == ords[oid]
        execution_price == GetExecutionPrice(order, current_price, current_time, data)
    IN IF execution_price = None THEN
           [orders |-> ords, positions |-> pos, closed |-> closed, cash |-> c,
            ret |-> 0, fill |-> None]
       ELSE IF IsNaNBenchmark(order, current_time, data) THEN
           \* NaN is not None: the order is filled; px, the commission and
           \* the cash flow are NaN; _update_position works on quantities
           LET filled_time == current_time + OrderFillDelayMs
               filled == [order EXCEPT !.status = FILLED,
                                       !.filled_price = execution_price,
                                       !.filled_time = Some(filled_time),
                                       !.commission = NaN]
               up == UpdatePosition(pos, closed, oid,
                                    [filled EXCEPT !.commission = 0], 0, filled_time)
           IN [orders |-> [ords EXCEPT ![oid] = filled],
               positions |-> PoisonPositions(pos, up.positions),
               closed |-> up.closed, cash |-> NaN, ret |-> up.ret,
               fill |-> Some([order |-> oid, symbol |-> order.symbol,
                              direction |-> order.direction,
                              close |-> current_price, benchmark |-> NaN,
                              px |-> NaN, quantity |-> order.quantity,
                              commission |-> NaN, time |-> filled_time])]
       ELSE
           LET px == ApplySlippage(slippage_model, slippage, order,
                                   Val(execution_price), data).v
               comm == Commission(px, order.quantity, commission)
               filled_time == current_time + OrderFillDelayMs
               filled == [order EXCEPT !.status = FILLED,
                                       !.filled_price = execution_price,
                                       !.filled_time = Some(filled_time),
                                       !.commission = comm]
               up == UpdatePosition(pos, closed, oid, filled, px, filled_time)
           IN [orders |-> [ords EXCEPT ![oid] = filled],
               positions |-> up.positions, closed |-> up.closed,
               cash |-> ApplyCashFlow(c, order.direction, px, order.quantity, comm),
               ret |-> up.ret,
               fill |-> Some([order |-> oid, symbol |-> order.symbol,
                              direction |-> order.direction,
                              close |-> current_price,
                              benchmark |-> Val(execution_price),
                              px |-> px, quantity |-> order.quantity,
                              commission |-> comm, time |-> filled_time])]

\* the entry check of execute_order (line 154)
IsPending(ords, oid) == ords[oid].status = PENDING

\* the entry check of close_position (lines 286-288): the id is known and the
\* position is open
Closable(pos, pid) == pid \in 1..Len(pos) /\ IsOpen(pos[pid])

\* variant: the closing order takes the signed quantity and the position's
\* own direction
ClosingOrder_SameSide(p) ==
    NewOrder(p.symbol, p.quantity, MARKET,
             IF p.quantity > 0 THEN BUY ELSE SELL, None, None)

\* the order close_position synthesizes (lines 289-290)
ClosingOrder(p) ==
    NewOrder(p.symbol, Abs(p.quantity), MARKET,
             IF p.quantity > 0 THEN SELL ELSE BUY, None, None)

\* what close_position returns once execute_order is back (lines 295-297)
CloseResult(pos, pid) == IF ~IsOpen(pos[pid]) THEN pid ELSE 0

\* a completed call: the operation, the order or position id it was given
\* (create_order: the new id), the market price it was given and what it
\* returned (0: None / False)
Call(op, arg, price, time, ret) ==
    [op |-> op, arg |-> arg, price |-> price, ret |-> ret]

Apply(r) ==
    /\ orders' = r.orders
    /\ positions' = r.positions
    /\ closed_positions' = r.closed
    /\ cash' = r.cash
    /\ fills' = IF r.fill = None THEN fills ELSE Append(fills, Val(r.fill))

config == <<commission, slippage_model, slippage, cash0>>

\* no run_backtest request, no declarative strategy, no synchronous engine
NoRun ==
    /\ strategy_name = ""
    /\ strategy_definition = None
    /\ indicator_map = <<>>
    /\ current_capital = 0

\* the step driver does not run while the ledger is used directly
NoDriver ==
    /\ data_dict = <<>>
    /\ params = <<>>
    /\ pc = "off"
    /\ t_idx = 0
    /\ row = 0
    /\ equity_curve = <<>>
    /\ final_capital = None
    /\ NoRun

\* ------------------------------------------------------------------ actions
\* OrderManager.create_order
CreateOrderWithin(max_orders, symbol, quantity, order_type, direction, price, duration) ==
    /\ Len(orders) < max_orders
    /\ orders' = Append(orders,
                   NewOrder(symbol, quantity, order_type, direction, price, duration))
    /\ last' = Call("create_order", Len(orders) + 1, 0, 0, Len(orders) + 1)
    /\ UNCHANGED <<config, driverVars, positions, closed_positions, cash, fills, tasks>>

CreateOrder(symbol, quantity, order_type, direction, price, duration) ==
    CreateOrderWithin(MaxOrders, symbol, quantity, order_type, direction, price,
                      duration)

\* OrderService.cancel_order
CancelOrder(oid) ==
    /\ oid \in 1..Len(orders)
    /\ IF IsPending(orders, oid)
       THEN /\ orders' = [orders EXCEPT ![oid].status = CANCELLED]
            /\ last' = Call("cancel_order", oid, 0, 0, 1)
       ELSE /\ orders' = orders
            /\ last' = Call("cancel_order", oid, 0, 0, 0)
    /\ UNCHANGED <<config, driverVars, positions, closed_positions, cash, fills, tasks>>

\* OrderManager.execute_order, the call run to completion with no other call
\* in between (the single-threaded use of the ledger)
ExecuteOrder(oid, current_price, current_time) ==
    /\ oid \in 1..Len(orders)
    /\ tasks = EmptyBag
    /\ NoDriver
    /\ IF ~IsPending(orders, oid)
       THEN /\ last' = Call("execute_order", oid, current_price, current_time, 0)
            /\ UNCHANGED <<orders, positions, closed_positions, cash, fills>>
       ELSE LET r == CompleteOrder(orders, positions, closed_positions, cash,
                                   oid, current_price, current_time, None)
            IN /\ Apply(r)
               /\ last' = Call("execute_order", oid, current_price, current_time, r.ret)
    /\ UNCHANGED <<config, driverVars, tasks>>

\* OrderManager.execute_order called with a trailing window (the data
\* argument), run to completion
ExecuteOrderData(oid, current_price, current_time, data) ==
    /\ oid \in 1..Len(orders)
    /\ tasks = EmptyBag
    /\ NoDriver
    /\ IF ~IsPending(orders, oid)
       THEN /\ last' = [op |-> "execute_order", arg |-> oid, price |-> current_price,
                        ret |-> 0, time |-> current_time, data |-> data]
            /\ UNCHANGED <<orders, positions, closed_positions, cash, fills>>
       ELSE LET r == CompleteOrder(orders, positions, closed_positions, cash,
                                   oid, current_price, current_time, data)
            IN /\ Apply(r)
               /\ last' = [op |-> "execute_order", arg |-> oid,
                           price |-> current_price, ret |-> r.ret,
                           time |-> current_time, data |-> data]
    /\ UNCHANGED <<config, driverVars, tasks>>

\* OrderManager.close_position, run to completion
ClosePositionWithin(max_orders, pid, current_price, current_time) ==
    /\ tasks = EmptyBag
    /\ NoDriver
    /\ IF ~Closable(positions, pid)
       THEN /\ last' = Call("close_position", pid, current_price, current_time, 0)
            /\ UNCHANGED <<orders, positions, closed_positions, cash, fills>>
       ELSE /\ Len(orders) < max_orders
            /\ LET oid == Len(orders) + 1
                   r == CompleteOrder(Append(orders, ClosingOrder(positions[pid])),
                                      positions, closed_positions, cash,
                                      oid, current_price, current_time, None)
               IN /\ Apply(r)
                  /\ last' = Call("close_position", pid, current_price, current_time,
                                  CloseResult(r.positions, pid))
    /\ UNCHANGED <<config, driverVars, tasks>>

ClosePosition(pid, current_price, current_time) ==
    ClosePositionWithin(MaxOrders, pid, current_price, current_time)

\* execute_order up to its await (lines 154-157): a call that passes the
\* entry check is suspended for the fill delay
ExecuteBegin(oid, current_price, current_time) ==
    /\ oid \in 1..Len(orders)
    /\ IF ~IsPending(orders, oid)
       THEN /\ last' = Call("execute_order", oid, current_price, current_time, 0)
            /\ tasks' = tasks
       ELSE /\ BagCardinality(tasks) < MaxTasks
            /\ tasks' = tasks (+) SetToBag({[op |-> "execute_order", order |-> oid,
                                             position |-> 0, price |-> current_price,
                                             time |-> current_time]})
            /\ last' = Call("await", 0, 0, 0, 0)
    /\ UNCHANGED <<config, driverVars, orders, positions, closed_positions, cash, fills>>

\* close_position up to the await inside execute_order (lines 286-291, 154-157)
CloseBeginWithin(max_orders, pid, current_price, current_time) ==
    /\ IF ~Closable(positions, pid)
       THEN /\ last' = Call("close_position", pid, current_price, current_time, 0)
            /\ UNCHANGED <<orders, tasks>>
       ELSE /\ Len(orders) < max_orders
            /\ BagCardinality(tasks) < MaxTasks
            /\ orders' = Append(orders, ClosingOrder(positions[pid]))
            /\ tasks' = tasks (+) SetToBag({[op |-> "close_position",
                                             order |-> Len(orders) + 1,
                                             position |-> pid, price |-> current_price,
                                             time |-> current_time]})
            /\ last' = Call("await", 0, 0, 0, 0)
    /\ UNCHANGED <<config, driverVars, positions, closed_positions, cash, fills>>

CloseBegin(pid, current_price, current_time) ==
    CloseBeginWithin(MaxOrders, pid, current_price, current_time)

\* a suspended call resumes after the fill delay and runs to its return
Resume(t) ==
    /\ BagIn(t, tasks)
    /\ LET r == CompleteOrder(orders, positions, closed_positions, cash,
                              t.order, t.price, t.time, None)
       IN /\ Apply(r)
          /\ last' = IF t.op = "close_position"
                     THEN Call(t.op, t.position, t.price, t.time,
                               CloseResult(r.positions, t.position))
                     ELSE Call(t.op, t.order, t.price, t.time, r.ret)
    /\ tasks' = tasks (-) SetToBag({t})
    /\ UNCHANGED <<config, driverVars>>

\* ----------------------------------------------------------- specifications
\* the configurations the ledger is constructed with:
\* <<commission, slippage model, slippage, seeded cash>>
Configs == {<<1, PERCENTAGE, 1, 1000>>}

InitLedger ==
    /\ \E c \in Configs :
          /\ commission = c[1]
          /\ slippage_model = c[2]
          /\ slippage = c[3]
          /\ cash0 = c[4]
    /\ cash = cash0
    /\ orders = <<>>
    /\ positions = <<>>
    /\ closed_positions = <<>>
    /\ fills = <<>>
    /\ last = Call("init", 0, 0, 0, 0)
    /\ tasks = EmptyBag
    /\ NoDriver

\* the caller's clock: ledger calls are ordered by timestamp, one bar
\* (BarMs) after the other; the timestamp a call passes is the bar that
\* follows the fills made so far
BarMs == 100
Now == BarMs * (Len(fills) + 1)

CreateMarket ==
    \E symbol \in Symbols, quantity \in Quantities, direction \in {BUY, SELL} :
        CreateOrder(symbol, quantity, MARKET, direction, None, None)

ExecuteAny ==
    \E oid \in 1..Len(orders) :
        IF IsPending(orders, oid)
        THEN \E price \in Prices : ExecuteOrder(oid, price, Now)
        ELSE ExecuteOrder(oid, SetMin(Prices), Now)

CloseAny ==
    \E pid \in 1..(Len(positions) + 1) :
        IF Closable(positions, pid)
        THEN \E price \in Prices : ClosePosition(pid, price, Now)
        ELSE ClosePosition(pid, SetMin(Prices), Now)

\* the ledger used by one caller at a time, market orders
Init == InitLedger
Next == CreateMarket \/ ExecuteAny \/ CloseAny
Spec == Init /\ [][Next]_vars

\* the ledger used by one caller at a time, every order type priced from the
\* current close (no trailing window), one symbol
PricerSymbol == "A"
PricerQuantity == 2
PricerPrices == {1, 2, 3}
LimitPrices == {None, Some(2)}
PricerConfigs == {<<1, PERCENTAGE, 1, 1000>>, <<1, FIXED, 2, 0>>}

InitPricer ==
    /\ \E c \in PricerConfigs :
          /\ commission = c[1]
          /\ slippage_model = c[2]
          /\ slippage = c[3]
          /\ cash0 = c[4]
    /\ cash = cash0
    /\ orders = <<>>
    /\ positions = <<>>
    /\ closed_positions = <<>>
    /\ fills = <<>>
    /\ last = Call("init", 0, 0, 0, 0)
    /\ tasks = EmptyBag
    /\ NoDriver

CreatePriced ==
    \E direction \in {BUY, SELL} :
        \/ CreateOrder(PricerSymbol, PricerQuantity, MARKET, direction, None, None)
        \/ \E order_type \in {LIMIT, STOP}, price \in LimitPrices :
               CreateOrder(PricerSymbol, PricerQuantity, order_type, direction,
                           price, None)

ExecutePriced ==
    \E oid \in 1..Len(orders) :
        IF IsPending(orders, oid)
        THEN \E price \in PricerPrices : ExecuteOrder(oid, price, Now)
        ELSE ExecuteOrder(oid, SetMin(PricerPrices), Now)

NextPricer == CreatePriced \/ ExecutePriced
SpecPricer == InitPricer /\ [][NextPricer]_vars

\* the ledger with overlapping calls: execute_order and close_position are
\* suspended in the fill delay while other calls start, resume or cancel
OverlapSymbol == "A"
OverlapQuantities == {2}

CreateOverlap ==
    \E quantity \in OverlapQuantities, direction \in {BUY, SELL} :
        CreateOrder(OverlapSymbol, quantity, MARKET, direction, None, None)

CancelAny == \E oid \in 1..Len(orders) : CancelOrder(oid)

ExecuteBeginAny ==
    \E oid \in 1..Len(orders) :
        IF IsPending(orders, oid)
        THEN \E price \in Prices : ExecuteBegin(oid, price, Now)
        ELSE ExecuteBegin(oid, SetMin(Prices), Now)

CloseBeginAny ==
    \E pid \in 1..(Len(positions) + 1) :
        IF Closable(positions, pid)
        THEN \E price \in Prices : CloseBegin(pid, price, Now)
        ELSE CloseBegin(pid, SetMin(Prices), Now)

ResumeAny == \E t \in BagToSet(tasks) : Resume(t)

NextOverlap ==
    CreateOverlap \/ CancelAny \/ ExecuteBeginAny \/ CloseBeginAny \/ ResumeAny
SpecOverlap == InitLedger /\ [][NextOverlap]_vars

\* the ledger used by one caller at a time on one symbol, with room for a
\* position that is built by two orders and then closed
MaxPnlOrders == 3
PnlSymbol == "A"
CreatePnl ==
    \E quantity \in Quantities, direction \in {BUY, SELL} :
        /\ \A oid \in 1..Len(orders) : ~IsPending(orders, oid)
        /\ CreateOrderWithin(MaxPnlOrders, PnlSymbol, quantity, MARKET, direction,
                             None, None)

ExecutePnl ==
    \E oid \in 1..Len(orders), price \in Prices :
        /\ IsPending(orders, oid)
        /\ ExecuteOrder(oid, price, Now)

ClosePnl ==
    \E pid \in 1..Len(positions), price \in Prices :
        /\ Closable(positions, pid)
        /\ \A oid \in 1..Len(orders) : ~IsPending(orders, oid)
        /\ ClosePositionWithin(MaxPnlOrders, pid, price, Now)

NextPnl == CreatePnl \/ ExecutePnl \/ ClosePnl
SpecPnl == InitLedger /\ [][NextPnl]_vars

\* close_position calls that overlap in the fill delay: one position is
\* opened by one filled market order, then closes are started and resumed in
\* any order
MaxCloses == 2
OpenOverlap ==
    /\ orders = <<>>
    /\ \E quantity \in Quantities \ {0}, direction \in {BUY, SELL} :
           CreateOrder(OverlapSymbol, quantity, MARKET, direction, None, None)

FillOverlap ==
    /\ Len(orders) = 1
    /\ \E price \in Prices : ExecuteOrder(1, price, Now)

CloseOverlap ==
    \E pid \in 1..Len(positions), price \in Prices :
        /\ Closable(positions, pid)
        /\ CloseBeginWithin(1 + MaxCloses, pid, price, Now)

NextClose == OpenOverlap \/ FillOverlap \/ CloseOverlap \/ ResumeAny
SpecClose == InitLedger /\ [][NextClose]_vars

\* ------------------------------------------------------ AsyncBacktestEngine
MaxDates == 2
Dates == 1..MaxDates
SymbolOrder == <<"A", "B">>
EnginePrices == {1, 2}
Signals == {0 - 1, 0, 1}
\* config: commission, slippage (ledger default model: percentage),
\* initial_capital, sizing_percentage (numerator over RateDen)
EngineConfig ==
    [commission |-> 1, slippage |-> 1, initial_capital |-> 1000,
     sizing_percentage |-> 1]
StrategyParams == {[stop_loss_pct |-> 5, take_profit_pct |-> 10]}

\* the bar series of one symbol: date -> close and the strategy's signal
SeriesSet == UNION {[D -> [close : EnginePrices, signal : Signals]] : D \in SUBSET Dates}
\* what data_manager.fetch_data returns: symbol -> series
DataDicts == UNION {[K -> SeriesSet] : K \in SUBSET Symbols}

RECURSIVE SortedSeq(_)
SortedSeq(S) ==
    IF S = {} THEN <<>> ELSE <<SetMin(S)>> \o SortedSeq(S \ {SetMin(S)})

\* variant: the driver walks the concatenated rows, one step per row
Timeline_PerRow(dd) ==
    LET RowsOf(symbol) == IF symbol \in DOMAIN dd
                          THEN SortedSeq(DOMAIN dd[symbol]) ELSE <<>>
    IN RowsOf(SymbolOrder[1]) \o RowsOf(SymbolOrder[2])

\* data.reset_index().groupby('date'): the distinct dates in ascending order
Timeline(dd) == SortedSeq(UNION {DOMAIN dd[symbol] : symbol \in DOMAIN dd})

\* the rows of one date group: the symbols with a bar at that date, in index
\* order (the combined frame is sorted by symbol)
Group(dd, date) ==
    SelectSeq(SymbolOrder, LAMBDA symbol :
                  symbol \in DOMAIN dd /\ date \in DOMAIN dd[symbol])

\* the date of the t-th group of the timeline
RowDateOf(t) == Timeline(data_dict)[t]

\* timestamps handed to the ledger: one bar every BarMs
Timestamp(date) == date * BarMs

\* variant: the mark-to-market sum takes every open position at the first
\* close of the group, whether its symbol has a bar or not
ComputeEquity_AnyPrice(c, pos, dd, date) ==
    LET first == dd[Group(dd, date)[1]][date].close
        RECURSIVE Sum(_)
        Sum(i) == IF i = 0 THEN 0
                  ELSE Sum(i - 1) +
                       (IF IsOpen(pos[i])
                        THEN pos[i].quantity * first * RateDen * RateDen
                        ELSE 0)
    IN c + Sum(Len(pos))

\* _step_through_data lines 152-162: cash plus quantity * close over the open
\* positions whose symbol has a bar at this date
ComputeEquity(c, pos, dd, date) ==
    LET price_lookup == [symbol \in {x \in DOMAIN dd : date \in DOMAIN dd[x]} |->
                             dd[symbol][date].close]
        RECURSIVE Sum(_)
        Sum(i) == IF i = 0 THEN 0
                  ELSE Sum(i - 1) +
                       (IF IsOpen(pos[i]) /\ pos[i].symbol \in DOMAIN price_lookup
                        THEN pos[i].quantity * price_lookup[pos[i].symbol]
                                 * RateDen * RateDen
                        ELSE 0)
    IN c + Sum(Len(pos))

\* _execute_signal lines 187-198: the whole-unit quantity a signal is sized to
SizedQuantity(c, price) ==
    (c * EngineConfig.sizing_percentage) \div (price * RateDen * RateDen * RateDen)

\* _execute_signal: "skip" when the price is not positive or the sized
\* quantity is not positive; otherwise line 201 calls
\* self.order_manager.get_position, which OrderManager does not define, and
\* the AttributeError leaves _execute_signal, _step_through_data and
\* run_backtest
ExecuteSignal(signal, price, c) ==
    IF price <= 0 THEN "skip"
    ELSE IF SizedQuantity(c, price) <= 0 THEN "skip"
    ELSE "AttributeError"

\* the ledger fields as one value, for the calls the driver awaits in sequence
Ledger == [orders |-> orders, positions |-> positions, closed |-> closed_positions,
           cash |-> cash, fills |-> fills]

\* close_position awaited to completion on ledger L
CloseOn(L, pid, current_price, current_time) ==
    IF ~Closable(L.positions, pid) THEN L
    ELSE LET r == CompleteOrder(Append(L.orders, ClosingOrder(L.positions[pid])),
                                L.positions, L.closed, L.cash,
                                Len(L.orders) + 1, current_price, current_time, None)
         IN [orders |-> r.orders, positions |-> r.positions, closed |-> r.closed,
             cash |-> r.cash,
             fills |-> IF r.fill = None THEN L.fills ELSE Append(L.fills, Val(r.fill))]

\* variant: the return of a short position is computed like a long one's
ExitTriggered_LongReturn(p, price, sp) ==
    LET gain == price * RateDen - p.entry_price
    IN /\ (sp.stop_loss_pct > 0 \/ sp.take_profit_pct > 0)
       /\ \/ (sp.stop_loss_pct > 0
              /\ 100 * gain <= (0 - sp.stop_loss_pct) * p.entry_price)
          \/ (sp.take_profit_pct > 0
              /\ 100 * gain >= sp.take_profit_pct * p.entry_price)

\* _check_exit_conditions lines 219-235 for one position: stop-loss first,
\* else take-profit; returns are compared on the entry price
ExitTriggered(p, price, sp) ==
    LET gain == IF p.quantity > 0 THEN price * RateDen - p.entry_price
                ELSE p.entry_price - price * RateDen
    IN /\ (sp.stop_loss_pct > 0 \/ sp.take_profit_pct > 0)
       /\ \/ (sp.stop_loss_pct > 0
              /\ 100 * gain <= (0 - sp.stop_loss_pct) * p.entry_price)
          \/ (sp.take_profit_pct > 0
              /\ 100 * gain >= sp.take_profit_pct * p.entry_price)

\* _check_exit_conditions: the loop over the positions that were open when it
\* started (ids is that list)
RECURSIVE CheckExitConditions(_, _, _, _, _, _)
CheckExitConditions(L, ids, price, current_time, sp, symbol) ==
    IF ids = <<>> THEN L
    ELSE LET pid == Head(ids)
             p == L.positions[pid]
             L2 == IF p.symbol = symbol /\ ExitTriggered(p, price, sp)
                   THEN CloseOn(L, pid, price, current_time)
                   ELSE L
         IN CheckExitConditions(L2, Tail(ids), price, current_time, sp, symbol)

SetLedger(L) ==
    /\ orders' = L.orders
    /\ positions' = L.positions
    /\ closed_positions' = L.closed
    /\ cash' = L.cash
    /\ fills' = L.fills

\* StrategyManager.STRATEGIES
RegisteredStrategies == {"moving_average_crossover", "rsi_mean_reversion", "macd"}

\* create_strategy: an instance of the registered class, None for a name that
\* is not registered
CreateStrategy(name) == IF name \notin RegisteredStrategies THEN None ELSE Some(name)

\* run_backtest lines 57-60: a declarative definition (a non-empty mapping)
\* makes a ComposableStrategy, otherwise the name is looked up
ResolveStrategy(name, definition) ==
    IF definition # None THEN Some("ComposableStrategy") ELSE CreateStrategy(name)

\* run_backtest lines 50-89 up to the first step: _reset_state (a new ledger
\* from the engine's configuration, which the variables commission, slippage
\* and cash0 hold), fetch, the empty-mapping return, the strategy's signals,
\* the merge
\* (a symbol without bars comes as a frame that has the columns, or as the
\* column-less pd.DataFrame() of data_manager.py 76-79, on which the strategy's
\* data['close'] raises KeyError at line 78)
RunBacktest ==
    /\ pc = "start"
    /\ UNCHANGED <<commission, slippage, cash0>>
    /\ slippage_model' = PERCENTAGE
    /\ cash' = cash0
    /\ orders' = <<>>
    /\ positions' = <<>>
    /\ closed_positions' = <<>>
    /\ equity_curve' = <<>>
    /\ fills' = <<>>
    /\ last' = Call("run_backtest", 0, 0, 0, 0)
    /\ \/ IF DOMAIN data_dict = {}
          THEN pc' = "returned_empty" /\ t_idx' = 0
          ELSE IF ResolveStrategy(strategy_name, strategy_definition) = None
          THEN pc' = "returned_empty" /\ t_idx' = 0
          ELSE IF Timeline(data_dict) = <<>>
               THEN pc' = "stepped" /\ t_idx' = 0
               ELSE pc' = "equity" /\ t_idx' = 1
       \/ /\ DOMAIN data_dict # {}
          /\ ResolveStrategy(strategy_name, strategy_definition) # None
          /\ \E symbol \in DOMAIN data_dict : data_dict[symbol] = <<>>
          /\ pc' = "raised"
          /\ t_idx' = 0
    /\ UNCHANGED <<tasks, data_dict, params, row, final_capital, runVars>>

\* _step_through_data lines 148-165: the equity point of the date group
AppendEquity ==
    /\ pc = "equity"
    /\ LET date == Timeline(data_dict)[t_idx]
       IN equity_curve' = Append(equity_curve,
              [timestamp |-> date,
               equity |-> ComputeEquity(cash, positions, data_dict, date)])
    /\ pc' = "row"
    /\ row' = 1
    /\ last' = Call("equity", t_idx, 0, 0, 0)
    /\ UNCHANGED <<config, orders, positions, closed_positions, cash, fills, tasks,
                   data_dict, params, t_idx, final_capital, runVars>>

\* _step_through_data lines 168-178: one row of the group: the signal, then
\* the exit conditions of the row's symbol
ProcessRow ==
    /\ pc = "row"
    /\ LET date == Timeline(data_dict)[t_idx]
           rows == Group(data_dict, date)
           symbol == rows[row]
           bar == data_dict[symbol][date]
           outcome == IF bar.signal # 0
                      THEN ExecuteSignal(bar.signal, bar.close, cash)
                      ELSE "skip"
       IN IF outcome = "AttributeError"
          THEN /\ pc' = "raised"
               /\ last' = Call("AttributeError", row, bar.close, 0, 0)
               /\ UNCHANGED <<orders, positions, closed_positions, cash, fills, row>>
          ELSE /\ SetLedger(CheckExitConditions(Ledger,
                       SortedSeq(OpenPositions(positions)), bar.close,
                       Timestamp(date), params, symbol))
               /\ last' = Call("row", row, bar.close, 0, 0)
               /\ IF row < Len(rows)
                  THEN row' = row + 1 /\ pc' = "row"
                  ELSE row' = 0 /\ pc' = "yield"
    /\ UNCHANGED <<config, tasks, data_dict, params, t_idx, equity_curve,
                   final_capital, runVars>>

\* _step_through_data line 180: await asyncio.sleep(0), then the next group
Yield ==
    /\ pc = "yield"
    /\ IF t_idx < Len(Timeline(data_dict))
       THEN t_idx' = t_idx + 1 /\ pc' = "equity"
       ELSE t_idx' = t_idx /\ pc' = "stepped"
    /\ last' = Call("yield", t_idx, 0, 0, 0)
    /\ UNCHANGED <<config, orders, positions, closed_positions, cash, fills, tasks,
                   data_dict, params, row, equity_curve, final_capital, runVars>>

\* run_backtest lines 91-123: the result
Finalize ==
    /\ pc = "stepped"
    /\ final_capital' = IF equity_curve # <<>>
                        THEN Some(equity_curve[Len(equity_curve)].equity)
                        ELSE Some(cash0)
    /\ pc' = "done"
    /\ last' = Call("return", 0, 0, 0, 0)
    /\ UNCHANGED <<config, orders, positions, closed_positions, cash, fills, tasks,
                   data_dict, params, t_idx, row, equity_curve, runVars>>

\* AsyncBacktestEngine.__init__ followed by a run on any fetched data, with a
\* strategy name out of names and a declarative definition out of definitions
InitRun(names, definitions) ==
    /\ commission = EngineConfig.commission
    /\ slippage = EngineConfig.slippage
    /\ slippage_model = PERCENTAGE
    /\ cash0 = EngineConfig.initial_capital
    /\ cash = cash0
    /\ orders = <<>>
    /\ positions = <<>>
    /\ closed_positions = <<>>
    /\ fills = <<>>
    /\ last = Call("init", 0, 0, 0, 0)
    /\ tasks = EmptyBag
    /\ data_dict \in DataDicts
    /\ params \in StrategyParams
    /\ pc = "start"
    /\ t_idx = 0
    /\ row = 0
    /\ equity_curve = <<>>
    /\ final_capital = None
    /\ strategy_name \in names
    /\ strategy_definition \in definitions
    /\ indicator_map = <<>>
    /\ current_capital = 0

InitEngine == InitRun({"moving_average_crossover"}, {None})

NextEngine == RunBacktest \/ AppendEquity \/ ProcessRow \/ Yield \/ Finalize
SpecEngine == InitEngine /\ [][NextEngine]_vars

\* a run for any strategy name, registered or not, with or without a
\* declarative definition
StrategyNames == RegisteredStrategies \cup {"buy_and_hold"}
StrategyDefinitions == {None, Some([entry |-> None, exit |-> None])}
InitStrategy == InitRun(StrategyNames, StrategyDefinitions)
SpecStrategy == InitStrategy /\ [][NextEngine]_vars

\* _step_through_data called on a constructed engine whose ledger
\* (engine.order_manager) already holds orders and positions, at most one
\* order per symbol, filled at the lowest close; no reset
StepQuantity == 2
StepSeries == UNION {[D -> [close : EnginePrices, signal : {0}]] : D \in SUBSET Dates}
StepData == UNION {[K -> StepSeries] : K \in SUBSET Symbols}
StepParams == {[stop_loss_pct |-> 50, take_profit_pct |-> 50],
               [stop_loss_pct |-> 50, take_profit_pct |-> 0],
               [stop_loss_pct |-> 0, take_profit_pct |-> 50],
               [stop_loss_pct |-> 0, take_profit_pct |-> 0]}

StepThroughData ==
    /\ pc = "off"
    /\ tasks = EmptyBag
    /\ \E dd \in StepData, sp \in StepParams :
          /\ data_dict' = dd
          /\ params' = sp
          /\ IF Timeline(dd) = <<>>
             THEN pc' = "stepped" /\ t_idx' = 0
             ELSE pc' = "equity" /\ t_idx' = 1
    /\ last' = Call("_step_through_data", 0, 0, 0, 0)
    /\ UNCHANGED <<config, orders, positions, closed_positions, cash, fills, tasks,
                   row, equity_curve, final_capital, runVars>>

CreateStep ==
    \E symbol \in Symbols, direction \in {BUY, SELL} :
        /\ pc = "off"
        /\ \A oid \in 1..Len(orders) : orders[oid].symbol # symbol
        /\ CreateOrder(symbol, StepQuantity, MARKET, direction, None, None)

ExecuteStep ==
    \E oid \in 1..Len(orders) :
        /\ IsPending(orders, oid)
        /\ ExecuteOrder(oid, SetMin(EnginePrices), Now)

NextStep ==
    CreateStep \/ ExecuteStep \/ StepThroughData \/ AppendEquity \/ ProcessRow \/ Yield
SpecStep == InitLedger /\ [][NextStep]_vars

\* _step_through_data with the suspension points of the calls it awaits:
\* close_position awaits execute_order, which sleeps for the fill delay
\* (order_manager.py line 157) before it fills
\* the first position, after id `after`, that _check_exit_conditions closes
\* for the symbol at this price (0: none)
NextTriggered(pos, after, price, sp, symbol) ==
    LET S == {i \in OpenPositions(pos) :
                  i > after /\ pos[i].symbol = symbol /\ ExitTriggered(pos[i], price, sp)}
    IN IF S = {} THEN 0 ELSE SetMin(S)

\* the exit loop of a row from position id after + 1 on, up to its next
\* await: either a close_position call is suspended in the fill delay, or the
\* loop ends and the driver moves to the next row
ExitScan(ords, pos, after, price, current_time, symbol) ==
    LET pid == NextTriggered(pos, after, price, params, symbol)
        rows == Group(data_dict, RowDateOf(t_idx))
    IN IF pid = 0
       THEN /\ orders' = ords
            /\ tasks' = EmptyBag
            /\ last' = Call("row", row, price, 0, 0)
            /\ IF row < Len(rows)
               THEN row' = row + 1 /\ pc' = "row"
               ELSE row' = 0 /\ pc' = "yield"
       ELSE /\ orders' = Append(ords, ClosingOrder(pos[pid]))
            /\ tasks' = SetToBag({[op |-> "close_position", order |-> Len(ords) + 1,
                                   position |-> pid, price |-> price,
                                   time |-> current_time]})
            /\ last' = Call("await", 0, 0, 0, 0)
            /\ pc' = "fill_delay"
            /\ row' = row

\* lines 168-178 up to the first await that suspends
RowBegin ==
    /\ pc = "row"
    /\ LET date == RowDateOf(t_idx)
           symbol == Group(data_dict, date)[row]
           bar == data_dict[symbol][date]
           outcome == IF bar.signal # 0
                      THEN ExecuteSignal(bar.signal, bar.close, cash)
                      ELSE "skip"
       IN IF outcome = "AttributeError"
          THEN /\ pc' = "raised"
               /\ last' = Call("AttributeError", row, bar.close, 0, 0)
               /\ UNCHANGED <<orders, tasks, row>>
          ELSE ExitScan(orders, positions, 0, bar.close, Timestamp(date), symbol)
    /\ UNCHANGED <<config, positions, closed_positions, cash, fills,
                   data_dict, params, t_idx, equity_curve, final_capital, runVars>>

\* the suspended close_position resumes after the fill delay, fills, and the
\* exit loop goes on to its next await
RowResume ==
    /\ pc = "fill_delay"
    /\ \E t \in BagToSet(tasks) :
          LET r == CompleteOrder(orders, positions, closed_positions, cash,
                                 t.order, t.price, t.time, None)
              date == RowDateOf(t_idx)
              symbol == Group(data_dict, date)[row]
          IN /\ positions' = r.positions
             /\ closed_positions' = r.closed
             /\ cash' = r.cash
             /\ fills' = IF r.fill = None THEN fills ELSE Append(fills, Val(r.fill))
             /\ ExitScan(r.orders, r.positions, t.position, t.price, t.time, symbol)
    /\ UNCHANGED <<config, data_dict, params, t_idx, equity_curve, final_capital, runVars>>

NextSuspend ==
    CreateStep \/ ExecuteStep \/ StepThroughData \/ AppendEquity \/ RowBegin
        \/ RowResume \/ Yield
SpecSuspend == InitLedger /\ [][NextSuspend]_vars

\* a single-symbol run with slippage configured to zero and no exit
\* thresholds, on every series over the dates 1..MaxDates+1
EndToEndSymbol == "A"
EndToEndDates == 1..(MaxDates + 1)
EndToEndData ==
    {[symbol \in {EndToEndSymbol} |-> series] :
         series \in [EndToEndDates -> [close : EnginePrices, signal : Signals]]}
EndToEndParams == {[stop_loss_pct |-> 0, take_profit_pct |-> 0]}

InitEndToEnd ==
    /\ commission = EngineConfig.commission
    /\ slippage = 0
    /\ slippage_model = PERCENTAGE
    /\ cash0 = EngineConfig.initial_capital
    /\ cash = cash0
    /\ orders = <<>>
    /\ positions = <<>>
    /\ closed_positions = <<>>
    /\ fills = <<>>
    /\ last = Call("init", 0, 0, 0, 0)
    /\ tasks = EmptyBag
    /\ data_dict \in EndToEndData
    /\ params \in EndToEndParams
    /\ pc = "start"
    /\ t_idx = 0
    /\ row = 0
    /\ equity_curve = <<>>
    /\ final_capital = None
    /\ strategy_name = "moving_average_crossover"
    /\ strategy_definition = None
    /\ indicator_map = <<>>
    /\ current_capital = 0

SpecEndToEnd == InitEndToEnd /\ [][NextEngine]_vars

\* _apply_slippage as a function: every model, buys and sells, with no
\* window, a window shorter than the rolling window, and windows of
\* RollingWindow + 1 bars (flat, rising by a step, alternating)
SlippageConfigs ==
    {<<1, model, slip, 1000>> :
         model \in {FIXED, PERCENTAGE, VOLATILITY_ADJUSTED}, slip \in {0, 1, 2}}
Bar(i, close, volume) == [time |-> i * BarMs, close |-> close, volume |-> volume]
ShortWindows ==
    {[i \in 1..Len(closes) |-> Bar(i, closes[i], 1)] :
         closes \in UNION {[1..n -> Prices] : n \in 1..2}}
LongWindows ==
    {[i \in 1..(RollingWindow + 1) |-> Bar(i, 1, 1)],
     [i \in 1..(RollingWindow + 1) |-> Bar(i, 2, 1)],
     [i \in 1..(RollingWindow + 1) |-> Bar(i, IF i < RollingWindow THEN 1 ELSE 2, 1)],
     [i \in 1..(RollingWindow + 1) |-> Bar(i, IF i % 2 = 0 THEN 1 ELSE 2, 1)]}
SlippageWindows == {None} \cup {Some(w) : w \in ShortWindows \cup LongWindows}

InitSlippage ==
    /\ \E c \in SlippageConfigs :
          /\ commission = c[1]
          /\ slippage_model = c[2]
          /\ slippage = c[3]
          /\ cash0 = c[4]
    /\ cash = cash0
    /\ orders = <<>>
    /\ positions = <<>>
    /\ closed_positions = <<>>
    /\ fills = <<>>
    /\ last = Call("init", 0, 0, 0, 0)
    /\ tasks = EmptyBag
    /\ NoDriver

\* one call of _apply_slippage for a market order at a pre-slippage price
ApplySlippageCall ==
    \E direction \in {BUY, SELL}, execution_price \in PricerPrices,
       data \in SlippageWindows :
        LET order == NewOrder(PricerSymbol, PricerQuantity, MARKET, direction, None, None)
        IN /\ last' = [op |-> "_apply_slippage",
                       arg |-> [direction |-> direction, data |-> data],
                       price |-> execution_price,
                       ret |-> ApplySlippage(slippage_model, slippage, order,
                                             execution_price, data)]
           /\ UNCHANGED <<config, driverVars, orders, positions, closed_positions,
                          cash, fills, tasks>>

NextSlippage == ApplySlippageCall
SpecSlippage == InitSlippage /\ [][NextSlippage]_vars

\* the ledger with one weighted order, executed with a trailing window of up
\* to MaxWindow bars, one bar every BarMs; the closes are multiples of 840,
\* so that every average over up to four bars with these volumes is a whole
\* price
MaxWindow == 3
WindowCloses == {840, 1680}
WindowVolumes == {0, 1, 2}
Durations == {None} \cup {Some(d) : d \in 0..MaxWindow}
Windows ==
    {[i \in 1..Len(bars) |-> Bar(i, bars[i][1], bars[i][2])] :
         bars \in UNION {[1..n -> WindowCloses \X WindowVolumes] : n \in 0..MaxWindow}}
WindowData == {None} \cup {Some(w) : w \in Windows}

CreateWeighted ==
    /\ orders = <<>>
    /\ \E order_type \in {VWAP, TWAP}, direction \in {BUY, SELL}, duration \in Durations :
           CreateOrder(PricerSymbol, PricerQuantity, order_type, direction, None, duration)

ExecuteWeighted ==
    \E oid \in 1..Len(orders) :
        /\ IsPending(orders, oid)
        /\ \E data \in WindowData, i \in 1..MaxWindow :
               ExecuteOrderData(oid, SetMin(WindowCloses), i * BarMs, data)

NextWindow == CreateWeighted \/ ExecuteWeighted
SpecWindow == InitLedger /\ [][NextWindow]_vars

\* ----------------------------------------------------------- SignalEvaluator
\* indicator-enriched data: a sequence of bars, each a record of the
\* computed indicator columns; a rule set is a sequence of groups
\* [op, conditions], a condition is [left, op, right], an operand is
\* [kind, ref, value]
Indicator(ref) == [kind |-> "indicator", ref |-> ref, value |-> 0]
Literal(v) == [kind |-> "value", ref |-> "", value |-> v]
Raised(e) == [kind |-> "error", error |-> e]

\* the columns of a frame; every frame of the model carries DataColumns, so
\* does the one without rows
DataColumns == {"x", "y"}
Columns(data) == IF data = <<>> THEN DataColumns ELSE DOMAIN data[1]

\* IndicatorFactory.create: the known indicator types
IndicatorTypes == {"sma", "ema", "rsi"}

\* calculate_indicators: the definition's indicators in order, each created
\* by the factory (an unknown type raises ValueError) and registered under
\* its id with the column it writes; the result is the new indicator_map
RECURSIVE CalculateIndicators(_, _)
CalculateIndicators(indicators, map) ==
    IF indicators = <<>> THEN [kind |-> "map", map |-> map]
    ELSE LET d == Head(indicators)
         IN IF d.type \notin IndicatorTypes THEN Raised("ValueError")
            ELSE CalculateIndicators(Tail(indicators),
                     [id \in DOMAIN map \cup {d.id} |->
                         IF id = d.id THEN d.output_col ELSE map[id]])

\* variant: an operand that cannot be resolved is read as the literal 0
GetOperandValue_SkipUnresolved(operand, data) ==
    IF operand.kind = "indicator"
       /\ operand.ref \in DOMAIN indicator_map
       /\ indicator_map[operand.ref] \in Columns(data)
    THEN [kind |-> "series",
          values |-> [i \in 1..Len(data) |-> data[i][indicator_map[operand.ref]]]]
    ELSE IF operand.kind = "value"
    THEN [kind |-> "scalar", value |-> operand.value]
    ELSE [kind |-> "scalar", value |-> 0]

\* _get_operand_value: the column registered for the indicator id (ValueError
\* if the id is not in indicator_map or the column is not in the data), or
\* the literal itself; any other kind raises ValueError
GetOperandValue(operand, data) ==
    IF operand.kind = "indicator"
    THEN IF operand.ref \notin DOMAIN indicator_map
            \/ indicator_map[operand.ref] = ""
            \/ indicator_map[operand.ref] \notin Columns(data)
         THEN Raised("ValueError")
         ELSE [kind |-> "series",
               values |-> [i \in 1..Len(data) |->
                              data[i][indicator_map[operand.ref]]]]
    ELSE IF operand.kind = "value"
    THEN [kind |-> "scalar", value |-> operand.value]
    ELSE Raised("ValueError")

Compare(op, a, b) ==
    IF op = "gt" THEN a > b ELSE IF op = "lt" THEN a < b ELSE a = b

\* _evaluate_condition: a Series against a Series or a literal compares
\* elementwise and gives a mask; a literal against a literal gives one bool
EvaluateCondition(condition, data) ==
    LET left == GetOperandValue(condition.left, data)
        right == GetOperandValue(condition.right, data)
        At(operand, i) == IF operand.kind = "series" THEN operand.values[i]
                          ELSE operand.value
    IN IF left.kind = "error" THEN left
       ELSE IF right.kind = "error" THEN right
       ELSE IF condition.op \notin {"gt", "lt", "eq"} THEN Raised("ValueError")
       ELSE IF left.kind = "scalar" /\ right.kind = "scalar"
       THEN [kind |-> "scalar",
             value |-> Compare(condition.op, left.value, right.value)]
       ELSE [kind |-> "series",
             mask |-> [i \in 1..Len(data) |->
                          Compare(condition.op, At(left, i), At(right, i))]]

FalseMask(data) == [kind |-> "series", mask |-> [i \in 1..Len(data) |-> FALSE]]

\* _evaluate_group: no conditions: all False; the conditions' masks are put
\* side by side with pd.concat, which takes Series only and raises TypeError
\* for a bool; then all(axis=1) for AND, any(axis=1) for OR
EvaluateGroup(group, data) ==
    LET masks == [k \in 1..Len(group.conditions) |->
                     EvaluateCondition(group.conditions[k], data)]
    IN IF group.conditions = <<>> THEN FalseMask(data)
       ELSE IF \E k \in 1..Len(masks) : masks[k].kind = "error"
       THEN Raised("ValueError")
       ELSE IF group.op \notin {"AND", "OR"} THEN Raised("ValueError")
       ELSE IF \E k \in 1..Len(masks) : masks[k].kind = "scalar"
       THEN Raised("TypeError")
       ELSE [kind |-> "series",
             mask |-> [i \in 1..Len(data) |->
                          IF group.op = "AND"
                          THEN \A k \in 1..Len(masks) : masks[k].mask[i]
                          ELSE \E k \in 1..Len(masks) : masks[k].mask[i]]]

\* _evaluate_rule_group: the groups' masks OR-ed onto an all-False mask; the
\* first group that raises ends the evaluation
EvaluateRuleGroup(groups, data) ==
    LET masks == [g \in 1..Len(groups) |-> EvaluateGroup(groups[g], data)]
        failed == {g \in 1..Len(groups) : masks[g].kind = "error"}
    IN IF failed # {} THEN masks[SetMin(failed)]
       ELSE [kind |-> "series",
             mask |-> [i \in 1..Len(data) |->
                          \E g \in 1..Len(groups) : masks[g].mask[i]]]

\* generate_signals: zeros, then 1 where the entry rules match, then -1 where
\* the exit rules match; entry or exit = None: the definition has no such
\* rules (absent or an empty mapping)
GenerateSignals(definition, data) ==
    LET entry == IF definition.entry = None THEN FalseMask(data)
                 ELSE EvaluateRuleGroup(Val(definition.entry), data)
        exit == IF definition.exit = None THEN FalseMask(data)
                ELSE EvaluateRuleGroup(Val(definition.exit), data)
    IN IF entry.kind = "error" THEN entry
       ELSE IF exit.kind = "error" THEN exit
       ELSE [kind |-> "series",
             values |-> [i \in 1..Len(data) |->
                            IF exit.mask[i] THEN 0 - 1
                            ELSE IF entry.mask[i] THEN 1 ELSE 0]]

\* the evaluator as a function: every rule set of up to two groups of up to
\* two conditions over two indicator columns, on every data of up to MaxBars
\* bars
MaxBars == 2
IndicatorValues == {1, 2}
IndicatorData ==
    UNION {[1..n -> [x : IndicatorValues, y : IndicatorValues]] : n \in 0..MaxBars}
Conditions ==
    {[left |-> Indicator("x"), op |-> "gt", right |-> Literal(1)],
     [left |-> Indicator("x"), op |-> "lt", right |-> Indicator("y")],
     [left |-> Literal(2), op |-> "eq", right |-> Indicator("y")],
     [left |-> Literal(2), op |-> "gt", right |-> Literal(1)]}
Groups ==
    {[op |-> op, conditions |-> conditions] :
         op \in {"AND", "OR"},
         conditions \in UNION {[1..n -> Conditions] : n \in 0..2}}
RuleSets == UNION {[1..n -> Groups] : n \in 0..2}
Rules ==
    {None, Some(<<>>)}
        \cup {Some(<<[op |-> "AND", conditions |-> <<condition>>]>>) :
                  condition \in Conditions}
Definitions == [entry : Rules, exit : Rules]

\* the indicators of a definition: [id, type, output_col]
IndicatorDef(id, type) == [id |-> id, type |-> type, output_col |-> id]
SignalIndicators == {<<IndicatorDef("x", "sma"), IndicatorDef("y", "rsi")>>}

\* calculate_indicators on a strategy whose indicator_map is still empty
CalculateIndicatorsFrom(lists) ==
    /\ last.op = "init"
    /\ \E indicators \in lists :
           LET r == CalculateIndicators(indicators, indicator_map)
           IN /\ indicator_map' = IF r.kind = "map" THEN r.map ELSE indicator_map
              /\ last' = [op |-> "calculate_indicators", arg |-> indicators,
                          price |-> 0, ret |-> r.kind]
    /\ UNCHANGED <<config, orders, positions, closed_positions, cash, fills, tasks,
                   data_dict, params, pc, t_idx, row, equity_curve, final_capital,
                   strategy_name, strategy_definition, current_capital>>

\* _evaluate_rule_group called once, after one of the calls in ops
EvaluateRuleGroupFrom(ops, ruleSets, frames) ==
    /\ last.op \in ops
    /\ \E groups \in ruleSets, data \in frames :
           last' = [op |-> "_evaluate_rule_group",
                    arg |-> [groups |-> groups, data |-> data],
                    price |-> 0,
                    ret |-> EvaluateRuleGroup(groups, data)]
    /\ UNCHANGED <<config, driverVars, orders, positions, closed_positions, cash,
                   fills, tasks>>

\* generate_signals called once, after one of the calls in ops
GenerateSignalsFrom(ops, definitions, frames) ==
    /\ last.op \in ops
    /\ \E definition \in definitions, data \in frames :
           last' = [op |-> "generate_signals",
                    arg |-> [definition |-> definition, data |-> data],
                    price |-> 0,
                    ret |-> GenerateSignals(definition, data)]
    /\ UNCHANGED <<config, driverVars, orders, positions, closed_positions, cash,
                   fills, tasks>>

CalculateIndicatorsCall == CalculateIndicatorsFrom(SignalIndicators)
EvaluateRuleGroupCall ==
    EvaluateRuleGroupFrom({"calculate_indicators"}, RuleSets, IndicatorData)
GenerateSignalsCall ==
    GenerateSignalsFrom({"calculate_indicators"}, Definitions, IndicatorData)

NextSignals == CalculateIndicatorsCall \/ EvaluateRuleGroupCall \/ GenerateSignalsCall
SpecSignals == InitLedger /\ [][NextSignals]_vars

\* the evaluator on rule trees with faulty leaves: an unsupported comparator,
\* an unsupported operand kind, an indicator id that is never registered
\* ("w"), an indicator whose column the frame does not have ("z"); the
\* evaluation may also come before any calculate_indicators
FaultyConditions ==
    {[left |-> Indicator("x"), op |-> "gt", right |-> Literal(1)],
     [left |-> Indicator("x"), op |-> "gte", right |-> Literal(1)],
     [left |-> [kind |-> "price", ref |-> "", value |-> 0], op |-> "gt",
      right |-> Literal(1)],
     [left |-> Literal(1), op |-> "lt", right |-> Indicator("w")],
     [left |-> Indicator("z"), op |-> "lt", right |-> Indicator("x")],
     [left |-> Literal(2), op |-> "gt", right |-> Literal(1)]}
FaultyGroups ==
    {[op |-> op, conditions |-> conditions] :
         op \in {"AND", "OR"},
         conditions \in UNION {[1..n -> FaultyConditions] : n \in 0..2}}
FaultyRuleSets == UNION {[1..n -> FaultyGroups] : n \in 0..2}
FaultyRules ==
    {None, Some(<<>>)}
        \cup {Some(<<[op |-> "OR", conditions |-> <<condition>>]>>) :
                  condition \in FaultyConditions}
FaultyDefinitions == [entry : FaultyRules, exit : FaultyRules]
FaultyIndicators ==
    {<<>>,
     <<IndicatorDef("x", "sma"), IndicatorDef("y", "rsi")>>,
     <<IndicatorDef("x", "ema"), IndicatorDef("z", "sma")>>,
     <<IndicatorDef("x", "sma"), IndicatorDef("z", "macd")>>}
FaultyData == UNION {[1..n -> [x : IndicatorValues, y : {1}]] : n \in 0..MaxBars}

CalculateFaulty == CalculateIndicatorsFrom(FaultyIndicators)
EvaluateFaulty ==
    EvaluateRuleGroupFrom({"init", "calculate_indicators"}, FaultyRuleSets, FaultyData)
GenerateFaulty ==
    GenerateSignalsFrom({"init", "calculate_indicators"}, FaultyDefinitions, FaultyData)
NextFailFast == CalculateFaulty \/ EvaluateFaulty \/ GenerateFaulty
SpecFailFast == InitLedger /\ [][NextFailFast]_vars

\* ----------------------------------------------------------- BacktestEngine
\* the synchronous engine: one symbol after the other, each symbol's rows in
\* index order.  Its sizing divides in floating point; the configuration
\* (all of the capital per signal, a capital of 4000) keeps every sized
\* quantity a whole number on the data below
SyncConfig ==
    [commission |-> 1, slippage |-> 1, initial_capital |-> 4000 * RateDen * RateDen,
     sizing_percentage |-> RateDen]

\* Position.get_pnl (1/RateDen^2 units)
GetPnl(p) ==
    IF IsOpen(p) THEN 0
    ELSE IF p.quantity > 0
    THEN (Val(p.exit_price) - p.entry_price) * p.quantity * RateDen - p.commission
    ELSE (p.entry_price - Val(p.exit_price)) * Abs(p.quantity) * RateDen - p.commission

\* run_backtest lines 53-56: data_dict.items() in order, empty frames skipped
SyncSymbols(dd) ==
    SelectSeq(SymbolOrder, LAMBDA symbol : symbol \in DOMAIN dd /\ dd[symbol] # <<>>)

\* data.iterrows(): the rows of one symbol's frame
SyncRows(dd, symbol) == SortedSeq(DOMAIN dd[symbol])

\* SizingManager.calculate_quantity: capital * percentage / price, 0 for a
\* price that is not positive
CalculateQuantity(price, capital) ==
    IF price <= 0 THEN 0
    ELSE (capital * SyncConfig.sizing_percentage) \div (price * RateDen * RateDen * RateDen)

\* _update_equity_curve with current_data = {symbol: row}: current_capital
\* plus quantity * close over the open positions of that symbol
UpdateEquityCurve(capital, pos, symbol, close) ==
    LET RECURSIVE Sum(_)
        Sum(i) == IF i = 0 THEN 0
                  ELSE Sum(i - 1) +
                       (IF IsOpen(pos[i]) /\ pos[i].symbol = symbol
                        THEN pos[i].quantity * close * RateDen * RateDen
                        ELSE 0)
    IN capital + Sum(Len(pos))

\* _execute_signal lines 189-196: r is what execute_order did to the ledger;
\* current_capital moves by quantity * filled_price only when execute_order
\* returned a position
SignalResult(L, capital, quantity, direction, oid, r) ==
    [ledger |-> [orders |-> r.orders, positions |-> r.positions,
                 closed |-> r.closed, cash |-> r.cash,
                 fills |-> IF r.fill = None THEN L.fills
                           ELSE Append(L.fills, Val(r.fill))],
     capital |-> IF r.ret = 0 \/ r.orders[oid].filled_price = None
                 THEN capital
                 ELSE IF direction = BUY
                 THEN capital
                      - quantity * Val(r.orders[oid].filled_price) * RateDen * RateDen
                 ELSE capital
                      + quantity * Val(r.orders[oid].filled_price) * RateDen * RateDen]

\* _execute_signal lines 183-188: the order of the sized quantity is created
\* and executed at the row's close
SizedOrder(L, capital, quantity, direction, symbol, price, current_time) ==
    SignalResult(L, capital, quantity, direction, Len(L.orders) + 1,
        CompleteOrder(Append(L.orders,
                          NewOrder(symbol, quantity, MARKET, direction, None, None)),
                      L.positions, L.closed, L.cash, Len(L.orders) + 1, price,
                      current_time, None))

\* BacktestEngine._execute_signal.  Result: the ledger and current_capital
SyncExecuteSignal(L, capital, signal, symbol, price, current_time) ==
    IF signal \notin {1, 0 - 1} THEN [ledger |-> L, capital |-> capital]
    ELSE SizedOrder(L, capital, CalculateQuantity(price, capital),
                    IF signal = 1 THEN BUY ELSE SELL, symbol, price, current_time)

\* _check_exit_conditions lines 214-223: a close adds |quantity| * exit_price -
\* commission of the closed position to current_capital
CapitalAfterClose(capital, closed_position) ==
    IF IsOpen(closed_position) THEN capital
    ELSE capital + Abs(closed_position.quantity)
                       * Val(closed_position.exit_price) * RateDen
                 - closed_position.commission

\* one position of the loop: L2 is the ledger after close_position
SyncExitResult(L2, capital, pid) ==
    [ledger |-> L2, capital |-> CapitalAfterClose(capital, L2.positions[pid])]

SyncExitOne(L, capital, pid, price, current_time, sp, symbol) ==
    IF L.positions[pid].symbol = symbol /\ ExitTriggered(L.positions[pid], price, sp)
    THEN SyncExitResult(CloseOn(L, pid, price, current_time), capital, pid)
    ELSE [ledger |-> L, capital |-> capital]

\* BacktestEngine._check_exit_conditions: the loop over the positions that
\* were open when it started
RECURSIVE SyncCheckExitConditions(_, _, _, _, _, _)
SyncCheckExitConditions(s, ids, price, current_time, sp, symbol) ==
    IF ids = <<>> THEN s
    ELSE SyncCheckExitConditions(
             SyncExitOne(s.ledger, s.capital, Head(ids), price, current_time, sp,
                         symbol),
             Tail(ids), price, current_time, sp, symbol)

\* _finalize_backtest lines 90-96 for one position: closed at the last close
\* of its symbol's frame
FinalizeOne(L, pid, symbol, dd) ==
    IF symbol \in DOMAIN dd /\ dd[symbol] # <<>>
    THEN CloseOn(L, pid,
                 dd[symbol][SyncRows(dd, symbol)[Len(SyncRows(dd, symbol))]].close,
                 Timestamp(SyncRows(dd, symbol)[Len(SyncRows(dd, symbol))]))
    ELSE L

\* _finalize_backtest: every position still open is closed
RECURSIVE FinalizeBacktest(_, _, _)
FinalizeBacktest(L, ids, dd) ==
    IF ids = <<>> THEN L
    ELSE FinalizeBacktest(FinalizeOne(L, Head(ids), L.positions[Head(ids)].symbol, dd),
                          Tail(ids), dd)

\* the symbol and the date of the row the loop stands at
SyncSymbol == SyncSymbols(data_dict)[row]
SyncDate == SyncRows(data_dict, SyncSymbol)[t_idx]

\* BacktestEngine.run_backtest lines 40-53: _reset_state, fetch, the empty
\* return for no data, the strategy lookup, then the first symbol with rows
SyncRunBacktest ==
    /\ pc = "start"
    /\ UNCHANGED <<commission, slippage, cash0>>
    /\ slippage_model' = PERCENTAGE
    /\ cash' = cash0
    /\ current_capital' = cash0
    /\ orders' = <<>>
    /\ positions' = <<>>
    /\ closed_positions' = <<>>
    /\ equity_curve' = <<>>
    /\ fills' = <<>>
    /\ last' = Call("run_backtest", 0, 0, 0, 0)
    /\ IF SyncSymbols(data_dict) = <<>>
       THEN pc' = "returned_empty" /\ row' = 0 /\ t_idx' = 0
       ELSE IF CreateStrategy(strategy_name) = None
       THEN pc' = "returned_empty" /\ row' = 0 /\ t_idx' = 0
       ELSE pc' = "equity" /\ row' = 1 /\ t_idx' = 1
    /\ UNCHANGED <<tasks, data_dict, params, final_capital, strategy_name,
                   strategy_definition, indicator_map>>

\* BacktestEngine._step_through_data line 80: the equity point of the row
SyncUpdateEquity ==
    /\ pc = "equity"
    /\ equity_curve' = Append(equity_curve,
           [timestamp |-> SyncDate,
            equity |-> UpdateEquityCurve(current_capital, positions, SyncSymbol,
                                         data_dict[SyncSymbol][SyncDate].close)])
    /\ pc' = "row"
    /\ last' = Call("equity", t_idx, 0, 0, 0)
    /\ UNCHANGED <<config, orders, positions, closed_positions, cash, fills, tasks,
                   data_dict, params, t_idx, row, final_capital, runVars>>

\* the ledger and current_capital a row leaves behind
SyncRowDone(e, close) ==
    /\ SetLedger(e.ledger)
    /\ current_capital' = e.capital
    /\ last' = Call("row", row, close, 0, 0)

\* line 84: the exit conditions on what the signal left
SyncRowExits(s, close, date) ==
    SyncRowDone(SyncCheckExitConditions(s, SortedSeq(OpenPositions(s.ledger.positions)),
                                        close, Timestamp(date), params, SyncSymbol),
                close)

\* BacktestEngine._step_through_data lines 82-84: the row's signal, then the
\* exit conditions; then the next row, the next symbol, or the end
SyncProcessRow ==
    /\ pc = "row"
    /\ SyncRowExits(IF data_dict[SyncSymbol][SyncDate].signal # 0
                    THEN SyncExecuteSignal(Ledger, current_capital,
                             data_dict[SyncSymbol][SyncDate].signal, SyncSymbol,
                             data_dict[SyncSymbol][SyncDate].close,
                             Timestamp(SyncDate))
                    ELSE [ledger |-> Ledger, capital |-> current_capital],
                    data_dict[SyncSymbol][SyncDate].close, SyncDate)
    /\ IF t_idx < Len(SyncRows(data_dict, SyncSymbol))
       THEN t_idx' = t_idx + 1 /\ row' = row /\ pc' = "equity"
       ELSE IF row < Len(SyncSymbols(data_dict))
       THEN t_idx' = 1 /\ row' = row + 1 /\ pc' = "equity"
       ELSE t_idx' = t_idx /\ row' = row /\ pc' = "stepped"
    /\ UNCHANGED <<config, tasks, data_dict, params, equity_curve, final_capital,
                   strategy_name, strategy_definition, indicator_map>>

\* _generate_results: the sum of get_pnl() over the first i closed positions
RECURSIVE TotalPnl(_, _)
TotalPnl(L, i) ==
    IF i = 0 THEN 0 ELSE TotalPnl(L, i - 1) + GetPnl(L.positions[L.closed[i]])

\* _generate_results lines 145-150: final_capital is the last equity point
\* (initial capital plus the realised PnL when there is none)
SyncResults(L) ==
    /\ SetLedger(L)
    /\ final_capital' = IF equity_curve # <<>>
                        THEN Some(equity_curve[Len(equity_curve)].equity)
                        ELSE Some(cash0 + TotalPnl(L, Len(L.closed)))

\* run_backtest lines 59-61: _finalize_backtest, then _generate_results
SyncFinalize ==
    /\ pc = "stepped"
    /\ SyncResults(FinalizeBacktest(Ledger, SortedSeq(OpenPositions(positions)),
                                    data_dict))
    /\ pc' = "done"
    /\ last' = Call("return", 0, 0, 0, 0)
    /\ UNCHANGED <<config, tasks, data_dict, params, t_idx, row, equity_curve,
                   runVars>>

\* BacktestEngine.__init__ followed by a run on any fetched data
InitSync ==
    /\ commission = SyncConfig.commission
    /\ slippage = SyncConfig.slippage
    /\ slippage_model = PERCENTAGE
    /\ cash0 = SyncConfig.initial_capital
    /\ cash = 0
    /\ orders = <<>>
    /\ positions = <<>>
    /\ closed_positions = <<>>
    /\ fills = <<>>
    /\ last = Call("init", 0, 0, 0, 0)
    /\ tasks = EmptyBag
    /\ data_dict \in DataDicts
    /\ params \in StrategyParams
    /\ pc = "start"
    /\ t_idx = 0
    /\ row = 0
    /\ equity_curve = <<>>
    /\ final_capital = None
    /\ strategy_name = "moving_average_crossover"
    /\ strategy_definition = None
    /\ indicator_map = <<>>
    /\ current_capital = 0

NextSync == SyncRunBacktest \/ SyncUpdateEquity \/ SyncProcessRow \/ SyncFinalize
SpecSync == InitSync /\ [][NextSync]_vars

\* ----------------------------------------------------- MovingAverageCrossover
\* closes is the frame's close column, bars numbered from 1.  Means of
\* different periods are compared on the common scale period_a * period_b:
\* a mean over period p is held as window sum * (the other period)
WindowSum(closes, t, period) ==
    LET RECURSIVE Sum(_)
        Sum(k) == IF k = 0 THEN 0 ELSE Sum(k - 1) + closes[t - k + 1]
    IN Sum(period)

\* close.rolling(period).mean(): NaN until the window is full
RollingMean(closes, t, period, scale) ==
    IF t < period THEN NaN ELSE Finite(WindowSum(closes, t, period) * scale)

\* calculate_indicators line 46: data.fillna(0)
FillNa(x) == IF x.kind = "nan" THEN Finite(0) ELSE x

\* calculate_indicators: the sma_fast and sma_slow columns
SmaFast(closes, p) ==
    [t \in 1..Len(closes) |-> FillNa(RollingMean(closes, t, p.fast_period, p.slow_period))]
SmaSlow(closes, p) ==
    [t \in 1..Len(closes) |-> FillNa(RollingMean(closes, t, p.slow_period, p.fast_period))]

\* a comparison of two column values; any comparison with NaN is False
Gt(a, b) == a.kind = "finite" /\ b.kind = "finite" /\ a.v > b.v
Le(a, b) == a.kind = "finite" /\ b.kind = "finite" /\ a.v <= b.v

\* column.shift(1): the previous bar's value, NaN at the first bar
Shift(column, t) == IF t = 1 THEN NaN ELSE column[t - 1]

\* MovingAverageCrossover.generate_signals on the frame calculate_indicators
\* returned: +1 on a golden cross, then -1 on a death cross
CrossoverSignals(closes, p) ==
    LET fast == SmaFast(closes, p)
        slow == SmaSlow(closes, p)
    IN [t \in 1..Len(closes) |->
           IF Gt(slow[t], fast[t]) /\ Le(Shift(slow, t), Shift(fast, t)) THEN 0 - 1
           ELSE IF Gt(fast[t], slow[t]) /\ Le(Shift(fast, t), Shift(slow, t)) THEN 1
           ELSE 0]

\* the strategy as a function of the close column, for short periods
MaxHistory == 4
CloseValues == {1, 2, 3}
CloseColumns == UNION {[1..n -> CloseValues] : n \in 0..MaxHistory}
CrossoverParams ==
    {[fast_period |-> 1, slow_period |-> 2], [fast_period |-> 2, slow_period |-> 3]}

RunStrategy ==
    /\ last.op = "init"
    /\ \E closes \in CloseColumns, p \in CrossoverParams :
           last' = [op |-> "run_strategy",
                    arg |-> [closes |-> closes, params |-> p],
                    price |-> 0,
                    ret |-> CrossoverSignals(closes, p)]
    /\ UNCHANGED <<config, driverVars, orders, positions, closed_positions, cash,
                   fills, tasks>>

NextCrossover == RunStrategy
SpecCrossover == InitLedger /\ [][NextCrossover]_vars

\* ------------------------------------------------------------------ claims
\* the cash flow the claim ascribes to a fill f, and its running sum
FlowOf(f) ==
    IF f.direction = BUY
    THEN 0 - (f.px * f.quantity * RateDen + f.commission)
    ELSE f.px * f.quantity * RateDen - f.commission

RECURSIVE SumFlows(_, _)
SumFlows(fs, n) == IF n = 0 THEN 0 ELSE SumFlows(fs, n - 1) + FlowOf(fs[n])

C1_Sum ==
    /\ cash = cash0 + SumFlows(fills, Len(fills))
    /\ \A i \in 1..Len(fills) :
           fills[i].commission = fills[i].px * fills[i].quantity * commission

C1_Step ==
    cash' # cash =>
        /\ Len(fills') = Len(fills) + 1
        /\ cash' = cash + FlowOf(fills'[Len(fills')])

\* C1: every fill changes cash by exactly -(px*qty + commission) for a buy and
\* +(px*qty - commission) for a sell, with commission = px*qty*rate; cash is
\* the seeded cash plus the sum of these flows over all fills, and a step
\* that is not a fill leaves cash unchanged.
C1_CashConservation == [](C1_Sum) /\ [][C1_Step]_vars

\* C1 witness: a buy and a sell of non-zero quantity were both filled
C1_Witness ==
    \E i, j \in 1..Len(fills) :
        /\ fills[i].direction = BUY /\ fills[i].quantity > 0
        /\ fills[j].direction = SELL /\ fills[j].quantity > 0
        /\ fills[j].commission > 0
        /\ cash # cash0

\* C2: for every symbol the ledger holds at most one open position.
C2_AtMostOneOpen ==
    \A symbol \in Symbols :
        Cardinality({i \in OpenPositions(positions) :
                         positions[i].symbol = symbol}) <= 1

\* C2 witness: a symbol has a closed position and an open one beside it
C2_Witness ==
    \E i, j \in 1..Len(positions) :
        /\ positions[i].symbol = positions[j].symbol
        /\ ~IsOpen(positions[i])
        /\ IsOpen(positions[j])

SignedQty(f) == IF f.direction = BUY THEN f.quantity ELSE 0 - f.quantity

C3_Step ==
    Len(fills') = Len(fills) + 1 =>
        LET f == fills'[Len(fills')]
            old == FindOpenPosition(positions, f.symbol)
        IN (old # 0
            /\ Sgn(positions[old].quantity + SignedQty(f)) # 0
            /\ Sgn(positions[old].quantity + SignedQty(f))
                   # Sgn(positions[old].quantity)) =>
               /\ f.time = Now + OrderFillDelayMs
               /\ positions'[old].exit_price = Some(f.px)
               /\ positions'[old].exit_time = Some(f.time)
               /\ positions'[old].quantity = positions[old].quantity
               /\ closed_positions' = Append(closed_positions, old)
               /\ Len(positions') = Len(positions) + 1
               /\ LET new == positions'[Len(positions')]
                  IN /\ new.symbol = f.symbol
                     /\ new.quantity = positions[old].quantity + SignedQty(f)
                     /\ new.entry_price = f.px
                     /\ new.entry_time = f.time
                     /\ IsOpen(new)
               /\ {i \in OpenPositions(positions') : positions'[i].symbol = f.symbol}
                      = {Len(positions')}

\* C3: a fill that flips the sign of a symbol's net quantity with a non-zero
\* residual closes the old position at the fill's price and timestamp,
\* appends it to the closed list, and opens exactly one new position with the
\* residual signed quantity entered at the same price and timestamp.
C3_ZeroCross == [][C3_Step]_vars

\* C3 witness: a long was crossed into a short (or a short into a long): the
\* closed and the open position of one symbol have opposite signs and the
\* open one was entered when and where the closed one was exited
C3_Witness ==
    \E i, j \in 1..Len(positions) :
        /\ positions[i].symbol = positions[j].symbol
        /\ ~IsOpen(positions[i])
        /\ IsOpen(positions[j])
        /\ Sgn(positions[i].quantity) = 0 - Sgn(positions[j].quantity)
        /\ positions[i].exit_time = Some(positions[j].entry_time)
        /\ positions[i].exit_price = Some(positions[j].entry_price)
        /\ Abs(positions[j].quantity) = 1

C5_NoZero == \A i \in OpenPositions(positions) : positions[i].quantity # 0

C5_Step ==
    Len(fills') = Len(fills) + 1 =>
        LET f == fills'[Len(fills')]
            old == FindOpenPosition(positions, f.symbol)
        IN /\ (old # 0 /\ positions[old].quantity + SignedQty(f) = 0) =>
                  /\ ~IsOpen(positions'[old])
                  /\ closed_positions' = Append(closed_positions, old)
                  /\ Len(positions') = Len(positions)
                  /\ FindOpenPosition(positions', f.symbol) = 0
           /\ (old = 0 /\ f.quantity = 0) =>
                  /\ positions' = positions
                  /\ closed_positions' = closed_positions
                  /\ cash' = cash
                  /\ last'.ret = 0

\* C5: no open position has quantity zero; a fill that brings a symbol's net
\* quantity to exactly zero closes the existing position (appended to the
\* closed list) and opens nothing; a filled order of quantity zero on a
\* symbol without open position creates no position, returns None and
\* leaves cash unchanged.
C5_NoZeroQuantity == [](C5_NoZero) /\ [][C5_Step]_vars

\* C5 witness: a second fill brought a position's net quantity to zero: the
\* position is closed, holds both orders, and nothing else was opened
C5_Witness ==
    /\ Len(positions) = 1
    /\ closed_positions = <<1>>
    /\ Len(positions[1].orders) = 2
    /\ OpenPositions(positions) = {}

C7_Step ==
    (last'.op = "close_position") =>
        LET pid == last'.arg
        IN IF ~(pid \in 1..Len(positions) /\ positions[pid].exit_price = None)
           THEN /\ last'.ret = 0
                /\ orders' = orders
                /\ cash' = cash
                /\ positions' = positions
                /\ closed_positions' = closed_positions
           ELSE /\ Len(orders') = Len(orders) + 1
                /\ LET o == orders'[Len(orders')]
                   IN /\ o.symbol = positions[pid].symbol
                      /\ o.order_type = MARKET
                      /\ o.quantity = Abs(positions[pid].quantity)
                      /\ o.direction = (IF positions[pid].quantity > 0
                                        THEN SELL ELSE BUY)
                /\ last'.ret \in {0, pid}
                /\ (last'.ret = pid) =>
                       /\ positions'[pid].exit_price # None
                       /\ positions'[pid].orders
                              = Append(positions[pid].orders, Len(orders'))

\* C7: close_position(id) creates exactly one market order, opposite to the
\* position and for its full absolute quantity, and returns the position only
\* if this call's order closed it (the position was open before the call and
\* is closed by the call's own order); for an unknown id or a closed position
\* it returns None and changes neither orders, cash nor positions.
C7_ClosePosition == [][C7_Step]_vars

\* C7 witness: close_position returned a short position it closed
C7_Witness ==
    /\ last.op = "close_position"
    /\ last.ret # 0
    /\ positions[last.ret].quantity < 0
    /\ ~IsOpen(positions[last.ret])

C4_Step ==
    \A oid \in 1..Len(orders) :
        orders[oid].status \in {FILLED, CANCELLED} =>
            /\ orders'[oid] = orders[oid]
            /\ Len(fills') > Len(fills) => fills'[Len(fills')].order # oid
            /\ (last'.op = "execute_order" /\ last'.arg = oid) =>
                   /\ last'.ret = 0
                   /\ cash' = cash
                   /\ positions' = positions
                   /\ closed_positions' = closed_positions

\* C4: an order is filled at most once: once its status is filled or
\* cancelled, no step changes its status, filled price, filled time or
\* commission, no further fill is applied for it, and an execute_order call
\* that returns for it returns None and leaves cash and positions unchanged;
\* also when the calls overlap in the fill delay.
C4_FilledAtMostOnce == [][C4_Step]_vars

Fillable(o, close) ==
    IF o.price = None THEN FALSE
    ELSE IF o.order_type = LIMIT
         THEN IF o.direction = BUY THEN close <= o.price[1] ELSE close >= o.price[1]
         ELSE IF o.direction = BUY THEN close >= o.price[1] ELSE close <= o.price[1]

C6_Step ==
    (last'.op = "execute_order" /\ orders[last'.arg].status = PENDING
     /\ orders[last'.arg].order_type \in {LIMIT, STOP}) =>
        LET oid == last'.arg
            o == orders[oid]
            close == last'.price
        IN IF Fillable(o, close)
           THEN /\ orders'[oid].status = FILLED
                /\ orders'[oid].filled_price =
                       (IF o.order_type = LIMIT THEN o.price ELSE <<close>>)
                /\ Len(fills') = Len(fills) + 1
                /\ fills'[Len(fills')].order = oid
           ELSE /\ last'.ret = 0
                /\ orders' = orders
                /\ cash' = cash
                /\ positions' = positions
                /\ closed_positions' = closed_positions
                /\ fills' = fills

\* C6: a pending limit order fills iff the close has reached its limit (buy:
\* close <= limit, sell: close >= limit) and is then priced at the limit; a
\* pending stop order fills iff the close has reached its stop (buy: close >=
\* stop, sell: close <= stop) and is then priced at the close; otherwise, and
\* when the order has no price, execute_order returns None, the order stays
\* pending and cash, positions and closed positions are unchanged.
C6_LimitStop == [][C6_Step]_vars

\* C6 witness: a limit order was filled at its limit while the close was
\* strictly through it, and a stop order is still pending after an
\* execute_order call that returned None
C6_Witness ==
    /\ \E oid \in 1..Len(orders) :
           /\ orders[oid].order_type = LIMIT
           /\ orders[oid].status = FILLED
           /\ \E i \in 1..Len(fills) :
                  /\ fills[i].order = oid
                  /\ fills[i].benchmark = orders[oid].price[1]
                  /\ fills[i].close # orders[oid].price[1]
    /\ last.op = "execute_order"
    /\ last.ret = 0
    /\ orders[last.arg].order_type = STOP
    /\ orders[last.arg].price # None
    /\ orders[last.arg].status = PENDING

\* the row a step of the driver processes, read before the step
RowDate == Timeline(data_dict)[t_idx]
RowSymbol == Group(data_dict, RowDate)[row]
RowBar == data_dict[RowSymbol][RowDate]
RowStep == pc = "row" /\ (pc' # pc \/ row' # row)

C8_Step ==
    (RowStep /\ RowBar.signal # 0 /\ RowBar.close > 0
     /\ SizedQuantity(cash, RowBar.close) >= 1) =>
        LET existing == FindOpenPosition(positions, RowSymbol)
            quantity == SizedQuantity(cash, RowBar.close)
            oid == Len(orders) + 1
        IN /\ pc' # "raised"
           /\ IF RowBar.signal > 0 /\ existing = 0
              THEN /\ Len(orders') >= oid
                   /\ orders'[oid].symbol = RowSymbol
                   /\ orders'[oid].order_type = MARKET
                   /\ orders'[oid].direction = BUY
                   /\ orders'[oid].quantity = quantity
                   /\ orders'[oid].status = FILLED
                   /\ Len(positions') = Len(positions) + 1
                   /\ positions'[Len(positions')].symbol = RowSymbol
                   /\ positions'[Len(positions')].quantity = quantity
                   /\ \A i \in (oid + 1)..Len(orders') : orders'[i].direction = SELL
              ELSE IF RowBar.signal < 0 /\ existing # 0
              THEN /\ ~IsOpen(positions'[existing])
                   /\ FindOpenPosition(positions', RowSymbol) = 0
                   /\ orders'[oid].quantity = Abs(positions[existing].quantity)
                   /\ orders'[oid].status = FILLED
              ELSE IF RowBar.signal < 0
              THEN /\ orders' = orders
                   /\ cash' = cash
                   /\ positions' = positions
                   /\ closed_positions' = closed_positions
              ELSE /\ \A i \in oid..Len(orders') : orders'[i].direction = SELL
                   /\ Len(positions') = Len(positions)

\* C8: when the driver processes a row whose sized quantity is at least 1: a
\* buy signal with no open position in the symbol creates and fills one
\* market buy of that quantity and opens one long position; a buy signal
\* with an open position creates no buy order and opens nothing; a sell
\* signal with an open position closes it in full; a sell signal with no
\* open position leaves orders, cash and positions unchanged. In each case
\* the row completes without an error.
C8_SignalDispatch == [][C8_Step]_vars

\* the mark-to-market value the claim ascribes to a ledger at a date
RECURSIVE MarkSum(_, _, _, _)
MarkSum(ids, pos, dd, date) ==
    IF ids = {} THEN 0
    ELSE LET i == CHOOSE x \in ids : TRUE
         IN pos[i].quantity * dd[pos[i].symbol][date].close * RateDen * RateDen
                + MarkSum(ids \ {i}, pos, dd, date)

Marked(pos, dd, date) ==
    {i \in 1..Len(pos) : /\ pos[i].exit_price = None
                         /\ pos[i].symbol \in DOMAIN dd
                         /\ date \in DOMAIN dd[pos[i].symbol]}

C9_Step ==
    /\ equity_curve' # equity_curve =>
           LET point == equity_curve'[Len(equity_curve')]
               date == Timeline(data_dict)[t_idx]
           IN /\ Len(equity_curve') = Len(equity_curve) + 1
              /\ point.timestamp = date
              /\ point.equity =
                     cash + MarkSum(Marked(positions, data_dict, date),
                                    positions, data_dict, date)
              /\ <<orders, positions, closed_positions, cash>>' =
                     <<orders, positions, closed_positions, cash>>
    /\ RowStep =>
           /\ equity_curve' = equity_curve
           /\ Len(equity_curve) = t_idx
           /\ equity_curve[t_idx].timestamp = RowDate

\* C9: every equity point the driver appends at a date equals the ledger's
\* cash plus quantity * close over the open positions whose symbol has a bar
\* at that date (open positions in absent symbols add nothing), on the
\* ledger as it is before any row of that date is processed: the point is
\* appended by a step that leaves the ledger alone, and every row of the
\* date is processed after the date's point is in the curve.
C9_EquityPoint == [][C9_Step]_vars

\* C9 witness: a point was appended while one open position had a bar at the
\* date and another open position had none, and the rows of the date are
\* still to be processed
C9_Witness ==
    /\ pc = "row"
    /\ row = 1
    /\ Len(equity_curve) = t_idx
    /\ \E i, j \in OpenPositions(positions) :
           /\ i \in Marked(positions, data_dict, RowDate)
           /\ j \notin Marked(positions, data_dict, RowDate)
           /\ equity_curve[t_idx].equity =
                  cash + positions[i].quantity * data_dict[positions[i].symbol][RowDate].close
                             * RateDen * RateDen

C10_Increasing ==
    \A i, j \in 1..Len(equity_curve) :
        i < j => equity_curve[i].timestamp < equity_curve[j].timestamp

C10_OnePerDate ==
    pc \in {"stepped", "done"} =>
        /\ {equity_curve[i].timestamp : i \in 1..Len(equity_curve)} =
               UNION {DOMAIN data_dict[symbol] : symbol \in DOMAIN data_dict}
        /\ Len(equity_curve) =
               Cardinality(UNION {DOMAIN data_dict[symbol] : symbol \in DOMAIN data_dict})

\* C10: the timestamps of the equity curve are strictly increasing at every
\* moment of a run, and when the driver has walked the merged input the curve
\* holds exactly one point for each distinct date of the input, however many
\* symbols have a bar at a date.
C10_EquityTimestamps == C10_Increasing /\ C10_OnePerDate

\* C10 witness: a run has returned for an input in which two symbols share a
\* date and one of them has a further date of its own
C10_Witness ==
    /\ pc = "done"
    /\ Len(equity_curve) = 2
    /\ \E date \in Dates :
           /\ Len(Group(data_dict, date)) = 2
           /\ \E other \in Dates : Len(Group(data_dict, other)) = 1

\* the driver has handed control to the event loop
Suspended == pc \in {"yield", "fill_delay"}

\* C11: whenever the step driver is suspended, the timestamp it was working
\* on is complete: every row of the date has been processed and no order the
\* driver created is waiting to be applied, so no other task can see an
\* equity point whose closes are not applied or one symbol's fill without
\* the other symbols of the date.
C11_SuspendsBetweenTimestamps ==
    Suspended => (pc = "yield" /\ row = 0 /\ tasks = EmptyBag)

\* the sign-aware return of position p at a close, times 100 * entry price
\* (entry prices are positive)
Return100(p, price) ==
    IF p.quantity > 0 THEN 100 * (price * RateDen - p.entry_price)
    ELSE 100 * (p.entry_price - price * RateDen)

Breached(p, price, sp) ==
    IF sp.stop_loss_pct > 0 /\ Return100(p, price) <= (0 - sp.stop_loss_pct) * p.entry_price
    THEN TRUE
    ELSE sp.take_profit_pct > 0 /\ Return100(p, price) >= sp.take_profit_pct * p.entry_price

C12_Step ==
    (RowStep /\ pc' # "raised") =>
        LET price == RowBar.close
            mine == {i \in OpenPositions(positions) : positions[i].symbol = RowSymbol}
            hit == {i \in mine : Breached(positions[i], price, params)}
            new == (Len(orders) + 1)..Len(orders')
        IN /\ \A i \in hit :
                  /\ ~IsOpen(positions'[i])
                  /\ Cardinality({oid \in new : /\ orders'[oid].symbol = RowSymbol
                                                /\ orders'[oid].status = FILLED
                                                /\ orders'[oid].filled_price = Some(price)
                                                /\ orders'[oid].quantity =
                                                       Abs(positions[i].quantity)}) = 1
           /\ Cardinality(new) = Cardinality(hit)
           /\ \A i \in 1..Len(positions) : i \notin hit => positions'[i] = positions[i]
           /\ hit = {} => /\ orders' = orders
                          /\ positions' = positions
                          /\ closed_positions' = closed_positions
                          /\ cash' = cash
                          /\ fills' = fills

\* C12: when the driver has priced a symbol, every open position of that
\* symbol whose sign-aware return on entry breaches the configured stop-loss
\* (r <= -stopLossPct/100), or else the configured take-profit
\* (r >= takeProfitPct/100), is closed at the current price by exactly one
\* closing order; every other position is left as it was, and when no
\* position of the symbol breaches a configured threshold the ledger is
\* unchanged.
C12_RiskMonitor == [][C12_Step]_vars

\* C12 witness: at one date the driver closed a short position on its
\* stop-loss and left an open long position of another symbol, priced at the
\* same date, alone
C12_Witness ==
    /\ pc = "yield"
    /\ params.stop_loss_pct > 0
    /\ \E i \in 1..Len(positions), j \in OpenPositions(positions) :
           /\ ~IsOpen(positions[i])
           /\ positions[i].quantity < 0
           /\ positions[j].quantity > 0
           /\ positions[j].symbol # positions[i].symbol
           /\ Len(Group(data_dict, RowDateOf(t_idx))) = 2
           /\ fills[Len(fills)].symbol = positions[i].symbol
           /\ fills[Len(fills)].time = Timestamp(RowDateOf(t_idx)) + OrderFillDelayMs

\* the scenario of the end-to-end claim: one buy signal at date b whose sized
\* quantity is at least 1, one sell signal at a later date s, both before the
\* last bar, no other signal
Scenario(b, s) ==
    /\ DOMAIN data_dict = {EndToEndSymbol}
    /\ slippage = 0
    /\ LET series == data_dict[EndToEndSymbol]
           final == Len(Timeline(data_dict))
       IN /\ b \in DOMAIN series /\ s \in DOMAIN series
          /\ b < s /\ s < final
          /\ series[b].signal = 1
          /\ series[s].signal = 0 - 1
          /\ \A d \in DOMAIN series \ {b, s} : series[d].signal = 0
          /\ SizedQuantity(cash0, series[b].close) >= 1

\* C13: a single-symbol run with zero slippage and no exit threshold, with
\* one buy signal and one later sell signal before the last bar, returns a
\* result with exactly one closed position, entered at the buy bar's close
\* and exited at the sell bar's close, and final_capital = initial capital
\* - (entry notional + commission) + (exit notional - commission).
C13_EndToEnd ==
    \A b, s \in EndToEndDates :
        (Scenario(b, s) /\ pc \in {"done", "raised"}) =>
            LET series == data_dict[EndToEndSymbol]
                quantity == SizedQuantity(cash0, series[b].close)
                entry == series[b].close * RateDen
                exit == series[s].close * RateDen
            IN /\ pc = "done"
               /\ Len(closed_positions) = 1
               /\ positions[closed_positions[1]].entry_price = entry
               /\ positions[closed_positions[1]].exit_price = Some(exit)
               /\ final_capital =
                      Some(cash0
                           - (entry * quantity * RateDen + entry * quantity * commission)
                           + (exit * quantity * RateDen - exit * quantity * commission))

\* C14: under each slippage model the price _apply_slippage returns is a
\* number that is >= the pre-slippage price for a buy and <= it for a sell,
\* and the volatility-adjusted model returns the pre-slippage price itself
\* when no trailing window is supplied.
C14_SlippageDirection ==
    last.op = "_apply_slippage" =>
        /\ last.ret.kind = "finite"
        /\ last.arg.direction = BUY => last.ret.v >= last.price * RateDen
        /\ last.arg.direction = SELL => last.ret.v <= last.price * RateDen
        /\ (slippage_model = VOLATILITY_ADJUSTED /\ last.arg.data = None) =>
               last.ret.v = last.price * RateDen

C15_Step ==
    (last'.op = "execute_order" /\ orders[last'.arg].status = PENDING
     /\ orders'[last'.arg].status = FILLED) =>
        LET oid == last'.arg
            o == orders[oid]
            benchmark == IF o.order_type = LIMIT THEN Val(o.price) ELSE last'.price
            amount == IF slippage_model = FIXED THEN slippage ELSE benchmark * slippage
            adjusted == IF o.direction = BUY THEN benchmark * RateDen + amount
                        ELSE benchmark * RateDen - amount
        IN /\ orders'[oid].filled_price = Some(benchmark)
           /\ orders'[oid].filled_time = Some(Now + OrderFillDelayMs)
           /\ orders'[oid].commission = adjusted * o.quantity * commission
           /\ fills'[Len(fills')].px = adjusted

C16_FilledPriceWithSlippage ==
    \A i \in 1..Len(fills) :
        LET o == orders[fills[i].order]
            p == fills[i].close
        IN (o.order_type = MARKET /\ o.direction = BUY) =>
               Val(o.filled_price) * RateDen =
                   p * RateDen + (IF slippage_model = FIXED THEN slippage
                                  ELSE p * slippage)

\* the last d bars of window w at or before time t
LastBars(w, t, d) ==
    LET upto == SelectSeq(w, LAMBDA b : b.time <= t)
        n == Len(upto)
    IN IF d >= n THEN upto ELSE SubSeq(upto, n - d + 1, n)

\* C17: a volume- or time-weighted order with duration d that is filled was
\* priced over exactly the last d bars of the trailing window at or before
\* the current timestamp: there is such a bar, and the filled price is
\* sum(close*volume)/sum(volume) over them for VWAP, the mean of their
\* closes for TWAP.
C17_WeightedPrice ==
    (last.op = "execute_order" /\ orders[last.arg].order_type \in {VWAP, TWAP}
     /\ orders[last.arg].status = FILLED) =>
        LET o == orders[last.arg]
            sel == LastBars(Val(last.data), last.time, Val(o.duration))
            n == Len(sel)
            volume == SeqSum([i \in 1..n |-> sel[i].volume], n)
        IN /\ n > 0
           /\ (o.order_type = VWAP /\ volume > 0) =>
                  Val(o.filled_price) * volume =
                      SeqSum([i \in 1..n |-> sel[i].close * sel[i].volume], n)
           /\ o.order_type = TWAP =>
                  Val(o.filled_price) * n = SeqSum([i \in 1..n |-> sel[i].close], n)

\* C18: an execute_order call for a weighted order returns None, leaves the
\* order pending and leaves cash and positions as they were whenever no
\* trailing window is supplied, the duration is unset, no bar is selected, or
\* (VWAP) the selected bars have zero total volume.
C18_WeightedSkipped ==
    (last.op = "execute_order" /\ orders[last.arg].order_type \in {VWAP, TWAP}) =>
        LET o == orders[last.arg]
            sel == LastBars(Val(last.data), last.time, Val(o.duration))
            n == Len(sel)
            edge == \/ last.data = None
                    \/ o.duration = None
                    \/ n = 0
                    \/ (o.order_type = VWAP
                        /\ SeqSum([i \in 1..n |-> sel[i].volume], n) = 0)
        IN edge => /\ last.ret = 0
                   /\ o.status = PENDING
                   /\ positions = <<>>
                   /\ cash = cash0

\* what the rule-tree claims say: a leaf holds at bar i
LeafHolds(condition, data, i) ==
    LET Resolve(operand) == IF operand.kind = "indicator" THEN data[i][operand.ref]
                            ELSE operand.value
    IN IF condition.op = "gt" THEN Resolve(condition.left) > Resolve(condition.right)
       ELSE IF condition.op = "lt"
       THEN Resolve(condition.left) < Resolve(condition.right)
       ELSE Resolve(condition.left) = Resolve(condition.right)

GroupMatches(group, data, i) ==
    /\ group.conditions # <<>>
    /\ IF group.op = "AND"
       THEN \A k \in 1..Len(group.conditions) : LeafHolds(group.conditions[k], data, i)
       ELSE \E k \in 1..Len(group.conditions) : LeafHolds(group.conditions[k], data, i)

RuleSetMatches(groups, data, i) ==
    \E g \in 1..Len(groups) : GroupMatches(groups[g], data, i)

\* C19: for a declarative strategy generate_signals returns a series with one
\* value per input bar, each in {+1, -1, 0}: -1 at every bar where the exit
\* rules match (also when the entry rules match it), +1 at every bar where
\* only the entry rules match, 0 otherwise.
C19_SignalSeries ==
    last.op = "generate_signals" =>
        LET definition == last.arg.definition
            data == last.arg.data
            Entry(i) == definition.entry # None
                        /\ RuleSetMatches(Val(definition.entry), data, i)
            Exit(i) == definition.exit # None
                       /\ RuleSetMatches(Val(definition.exit), data, i)
        IN /\ last.ret.kind = "series"
           /\ Len(last.ret.values) = Len(data)
           /\ \A i \in 1..Len(data) :
                  last.ret.values[i] = (IF Exit(i) THEN 0 - 1
                                        ELSE IF Entry(i) THEN 1 ELSE 0)

\* C20: a rule set matches a bar iff at least one of its groups matches (no
\* groups: never); an AND group matches iff all its leaf conditions hold at
\* the bar, an OR group iff at least one holds, a group without conditions
\* never; a leaf compares its resolved operands with gt, lt or eq.
C20_RuleTree ==
    last.op = "_evaluate_rule_group" =>
        /\ last.ret.kind = "series"
        /\ Len(last.ret.mask) = Len(last.arg.data)
        /\ \A i \in 1..Len(last.arg.data) :
               last.ret.mask[i] = RuleSetMatches(last.arg.groups, last.arg.data, i)

\* what the fail-fast claim calls a faulty leaf: an unsupported comparator, an
\* unsupported operand kind, or an indicator reference that is not registered
\* or whose column the frame does not have
FaultyOperand(operand, data) ==
    \/ operand.kind \notin {"indicator", "value"}
    \/ /\ operand.kind = "indicator"
       /\ \/ operand.ref \notin DOMAIN indicator_map
          \/ indicator_map[operand.ref] \notin Columns(data)

FaultyLeaf(condition, data) ==
    \/ condition.op \notin {"gt", "lt", "eq"}
    \/ FaultyOperand(condition.left, data)
    \/ FaultyOperand(condition.right, data)

HasFaultyLeaf(groups, data) ==
    \E g \in 1..Len(groups) :
        \E k \in 1..Len(groups[g].conditions) :
            FaultyLeaf(groups[g].conditions[k], data)

\* C21: evaluating a rule tree raises an error whenever any condition in it
\* uses a comparator other than gt/lt/eq, an operand kind other than
\* indicator/value, or an indicator reference whose id was never registered or
\* whose column is absent; in none of these cases is a series returned.
C21_FailFast ==
    /\ last.op = "_evaluate_rule_group" =>
           (HasFaultyLeaf(last.arg.groups, last.arg.data) =>
                last.ret.kind = "error")
    /\ last.op = "generate_signals" =>
           LET definition == last.arg.definition
               Faulty(rules) == rules # None
                                /\ HasFaultyLeaf(Val(rules), last.arg.data)
           IN (Faulty(definition.entry) \/ Faulty(definition.exit)) =>
                  last.ret.kind = "error"

\* reached: an indicator is registered but its column is not in the frame,
\* the leaf that refers to it is the last leaf of the last group, after valid
\* leaves, and the evaluation raised
C21_Witness ==
    /\ last.op = "_evaluate_rule_group"
    /\ "z" \in DOMAIN indicator_map
    /\ Len(last.arg.data) = MaxBars
    /\ Len(last.arg.groups) = 2
    /\ Len(last.arg.groups[1].conditions) = 2
    /\ ~HasFaultyLeaf(<<last.arg.groups[1]>>, last.arg.data)
    /\ Len(last.arg.groups[2].conditions) = 2
    /\ ~FaultyLeaf(last.arg.groups[2].conditions[1], last.arg.data)
    /\ last.arg.groups[2].conditions[2].left = Indicator("z")
    /\ last.ret = Raised("ValueError")

\* C22: run_backtest with a strategy name that is not registered (and no
\* declarative definition) raises as soon as the lookup fails, on data that
\* has symbols: it does not return a result, does not fall back to another
\* strategy and steps through no bar.
C22_UnknownStrategyRaises ==
    (/\ strategy_name \notin RegisteredStrategies
     /\ strategy_definition = None
     /\ DOMAIN data_dict # {}
     /\ pc # "start")
        => /\ pc = "raised"
           /\ equity_curve = <<>>
           /\ orders = <<>>

\* no bars for the requested symbols and range
DataGap == DOMAIN data_dict = {} \/ \A symbol \in DOMAIN data_dict : data_dict[symbol] = <<>>

\* C23: when the data mapping is empty or every symbol's series is empty,
\* run_backtest ends by returning the empty result, with no equity point, no
\* order and ledger cash at the initial capital.
C23_DataGap ==
    (DataGap /\ ResolveStrategy(strategy_name, strategy_definition) # None
        /\ pc \in {"done", "raised", "returned_empty"})
        => /\ pc = "returned_empty"
           /\ equity_curve = <<>>
           /\ orders = <<>>
           /\ cash = cash0

\* two or more symbols with rows, some timestamp shared by two of them
SharedTimestamps ==
    \E a, b \in DOMAIN data_dict :
        a # b /\ DOMAIN data_dict[a] \cap DOMAIN data_dict[b] # {}

\* C24: the equity curve BacktestEngine.run_backtest returns for two or more
\* symbols whose series share timestamps is strictly increasing in time and
\* has one entry per distinct timestamp of the input.
C24_SyncEquityTimestamps ==
    (pc = "done" /\ SharedTimestamps) =>
        /\ \A i, j \in 1..Len(equity_curve) :
               i < j => equity_curve[i].timestamp < equity_curve[j].timestamp
        /\ Len(equity_curve) =
               Cardinality(UNION {DOMAIN data_dict[symbol] : symbol \in DOMAIN data_dict})

\* C25: in BacktestEngine, after the reset and after every processed bar,
\* current_capital equals the ledger's cash.
C25_CapitalMirrorsCash ==
    pc \in {"equity", "row", "stepped"} => current_capital = cash

\* C26: for any interleaving of two close_position calls on the same open
\* position, both started before either fill delay has elapsed, the position
\* is closed once, cash moves for exactly one closing fill, and no new
\* position is opened for the symbol (the first order opened the position;
\* every later order is a closing order).
C26_CloseOnce ==
    /\ Len(positions) <= 1
    /\ Len(closed_positions) <= 1
    /\ Cardinality({k \in 1..Len(fills) : fills[k].order > 1}) <= 1

C27_Step ==
    (RowStep /\ RowBar.signal = 1 /\ RowBar.close > 0
     /\ SizedQuantity(cash, RowBar.close) >= 1
     /\ FindOpenPosition(positions, RowSymbol) = 0) =>
        /\ Len(fills') > Len(fills)
        /\ fills'[Len(fills) + 1].direction = BUY
        /\ fills'[Len(fills) + 1].quantity = SizedQuantity(cash, RowBar.close)
        /\ cash' >= 0

FinalTimestampBuy ==
    LET timeline == Timeline(data_dict)
        final == timeline[Len(timeline)]
    IN /\ timeline # <<>>
       /\ \A symbol \in DOMAIN data_dict : data_dict[symbol] # <<>>
       /\ \E symbol \in DOMAIN data_dict :
              /\ final \in DOMAIN data_dict[symbol]
              /\ data_dict[symbol][final].signal = 1
              /\ SizedQuantity(cash0, data_dict[symbol][final].close) >= 1
       /\ \A symbol \in DOMAIN data_dict :
              \A date \in DOMAIN data_dict[symbol] \ {final} :
                  data_dict[symbol][date].signal = 0

RECURSIVE RealizedPnl(_)
RealizedPnl(n) ==
    IF n = 0 THEN 0 ELSE RealizedPnl(n - 1) + GetPnl(positions[closed_positions[n]])

\* C29: whenever the ledger holds no open position, cash minus the seeded
\* cash equals the sum of get_pnl() over the closed positions, for any
\* sequence of filled market orders.
C29_RealizedPnl ==
    OpenPositions(positions) = {} =>
        cash - cash0 = RealizedPnl(Len(closed_positions))

\* the fast mean is above the slow mean at bar t, both over full windows
FastAbove(closes, p, t) ==
    /\ t >= p.fast_period /\ t >= p.slow_period
    /\ WindowSum(closes, t, p.fast_period) * p.slow_period
           > WindowSum(closes, t, p.slow_period) * p.fast_period

FastBelow(closes, p, t) ==
    /\ t >= p.fast_period /\ t >= p.slow_period
    /\ WindowSum(closes, t, p.fast_period) * p.slow_period
           < WindowSum(closes, t, p.slow_period) * p.fast_period

\* C30: MovingAverageCrossover emits +1 at bar t only if the fast average is
\* above the slow one at t and was at or below it at t-1, and -1 only in the
\* mirrored case, both averages over full windows; no non-zero signal is
\* emitted at a bar with fewer than slow_period bars of history.
C30_Crossover ==
    last.op = "run_strategy" =>
        LET closes == last.arg.closes
            p == last.arg.params
            Full(t) == t >= 1 /\ t >= p.fast_period /\ t >= p.slow_period
        IN \A t \in 1..Len(closes) :
               /\ last.ret[t] # 0 => t >= p.slow_period
               /\ last.ret[t] = 1 =>
                      /\ FastAbove(closes, p, t)
                      /\ Full(t - 1) /\ ~FastAbove(closes, p, t - 1)
               /\ last.ret[t] = 0 - 1 =>
                      /\ FastBelow(closes, p, t)
                      /\ Full(t - 1) /\ ~FastBelow(closes, p, t - 1)

====
